---- MODULE Spec2Model ----
(***************************************************************************)
(* Network monitor of playwright-mcp: the per-context RequestStorage, the  *)
(* per-page PageTracker and the context lifecycle (attachPage, detachPage, *)
(* resetContext, configureNetworkLimits).                                  *)
(*                                                                         *)
(* Representation.                                                         *)
(*  - "req-<n>", "page-<n>" and "monitor-<n>" are modelled by the number n;*)
(*    0 stands for "no identifier" (undefined).                            *)
(*  - A body text is a window [off, off+len) into a character stream, each *)
(*    UTF-16 unit taking w bytes in UTF-8, so that String.slice, .length   *)
(*    and Buffer.byteLength are computed and texts of 64 KiB stay small.   *)
(*  - A JavaScript object is a record; a property that is undefined is a   *)
(*    field that is not in the record's DOMAIN.                            *)
(***************************************************************************)
EXTENDS Integers, Sequences, FiniteSets, TLC

\* ------------------------------------------------------------------ bounds
MaxRequests == 2
MaxTrackers == 2
MaxTime == 2

\* ------------------------------------------------------- program constants
KB == 1024

DEFAULT_LIMITS ==
  [maxRequestBodyBytes |-> 32 * KB, maxResponseBodyBytes |-> 64 * KB]

Contexts == {"ctxA", "ctxB"}
Pages == {"p1", "p2", "p3"}

\* The browser context a page lives in (Context._onPageCreated attaches a
\* page under its own context only): p1 and p2 in ctxA, p3 in ctxB.
PageContext(p) == IF p = "p3" THEN "ctxB" ELSE "ctxA"

\* ------------------------------------------------------------------ texts
Min(a, b) == IF a <= b THEN a ELSE b

Txt(len, w) == [isStr |-> TRUE, off |-> 0, len |-> len, w |-> w]

\* null (also what `value ?? null` gives for undefined)
NullTxt == [isStr |-> FALSE, off |-> 0, len |-> 0, w |-> 0]

\* String.prototype.slice(0, end), 0 <= end
slice0(t, end) == [t EXCEPT !.len = Min(end, t.len)]

\* Buffer.byteLength(string)
byteLength(t) == t.len * t.w

\* JavaScript truthiness of a string-or-null value
Truthy(t) == t.isStr /\ t.len > 0

\* { ...a, ...b } and Object.assign(a, b)
Assign(a, b) ==
  [f \in (DOMAIN a) \cup (DOMAIN b) |-> IF f \in DOMAIN b THEN b[f] ELSE a[f]]

\* typeof o[f] === "number", for the byte-count fields
IsNumber(o, f) == f \in DOMAIN o

\* ---------------------------------------------------------- RequestStorage
NewStorage == [requests |-> <<>>, requestCounter |-> 0, activePageMonitors |-> {}]

Ids(storage) == {storage.requests[i].id : i \in DOMAIN storage.requests}

HasRequest(storage, requestId) == requestId \in Ids(storage)

IndexOf(storage, requestId) ==
  CHOOSE i \in DOMAIN storage.requests : storage.requests[i].id = requestId

\* RequestStorage.getRequest; only called here when the record exists
getRequest(storage, requestId) == storage.requests[IndexOf(storage, requestId)]

\* Map.prototype.set: replaces in place, or appends in insertion order
MapSet(requests, record) ==
  IF \E i \in DOMAIN requests : requests[i].id = record.id
  THEN [i \in DOMAIN requests |->
          IF requests[i].id = record.id THEN record ELSE requests[i]]
  ELSE Append(requests, record)

deriveBytes(record, bytesField, bodyField) ==
  IF IsNumber(record, bytesField) THEN record
  ELSE Assign(record, [x \in {bytesField} |->
         IF Truthy(record[bodyField]) THEN byteLength(record[bodyField]) ELSE 0])

deriveSize(record, sizeField, bytesField) ==
  IF IsNumber(record, sizeField) THEN record
  ELSE Assign(record, [x \in {sizeField} |-> record[bytesField]])

\* The record RequestStorage.saveRequest builds and stores
saveRequestRecord(storage, data, now) ==
  LET r0 == Assign([id |-> storage.requestCounter + 1, timestamp |-> now], data)
      r1 == deriveBytes(r0, "requestBodyBytes", "requestBody")
      r2 == deriveSize(r1, "requestBodySize", "requestBodyBytes")
      r3 == deriveBytes(r2, "responseBodyBytes", "responseBody")
      r4 == deriveSize(r3, "responseBodySize", "responseBodyBytes")
  IN r4

saveRequest(storage, data, now) ==
  [storage EXCEPT !.requestCounter = @ + 1,
                  !.requests = MapSet(@, saveRequestRecord(storage, data, now))]

\* updateRequest as it would be if an update stamped the record anew
updateRecordRestamping(existing, patch) ==
  Assign(Assign(existing, patch), [timestamp |-> existing.timestamp + 1])

\* The record RequestStorage.updateRequest leaves for an existing record
updateRecord(existing, patch) ==
  LET e0 == Assign(existing, patch)
      e1 == IF "responseBody" \in DOMAIN patch /\ ~IsNumber(e0, "responseBodyBytes")
            THEN Assign(e0, [responseBodyBytes |->
                   IF Truthy(e0.responseBody) THEN byteLength(e0.responseBody) ELSE 0])
            ELSE e0
      e2 == IF "responseBodySize" \in DOMAIN patch /\ ~IsNumber(e1, "responseBodySize")
            THEN Assign(e1, [responseBodySize |-> patch.responseBodySize])
            ELSE e1
      e3 == IF "requestBody" \in DOMAIN patch /\ ~IsNumber(e2, "requestBodyBytes")
            THEN Assign(e2, [requestBodyBytes |->
                   IF Truthy(e2.requestBody) THEN byteLength(e2.requestBody) ELSE 0])
            ELSE e2
      e4 == IF "requestBodySize" \in DOMAIN patch /\ ~IsNumber(e3, "requestBodySize")
            THEN Assign(e3, [requestBodySize |-> patch.requestBodySize])
            ELSE e3
  IN e4

\* updateRequest that creates the record when the id is not in the store
updateRequestUpserting(storage, requestId, patch) ==
  IF ~HasRequest(storage, requestId)
  THEN [storage EXCEPT !.requests = MapSet(@, Assign([id |-> requestId], patch))]
  ELSE [storage EXCEPT !.requests =
          [i \in DOMAIN @ |->
             IF @[i].id = requestId THEN updateRecord(@[i], patch) ELSE @[i]]]

updateRequest(storage, requestId, patch) ==
  IF ~HasRequest(storage, requestId) THEN storage
  ELSE [storage EXCEPT !.requests =
          [i \in DOMAIN @ |->
             IF @[i].id = requestId THEN updateRecord(@[i], patch) ELSE @[i]]]

\* Array.prototype.filter
SelectRecs(seq, Keep(_)) == SelectSeq(seq, Keep)

\* One step of the stable sort under the comparator b.timestamp - a.timestamp:
\* e goes behind every element that does not sort after it.
RECURSIVE InsertByTimestamp(_, _)
InsertByTimestamp(sorted, e) ==
  IF sorted = <<>> THEN <<e>>
  ELSE IF Head(sorted).timestamp >= e.timestamp
       THEN <<Head(sorted)>> \o InsertByTimestamp(Tail(sorted), e)
       ELSE <<e>> \o sorted

\* results.sort((a, b) => a.timestamp - b.timestamp): ascending, which is the
\* insertion order of the store
sortByTimestampAsc(seq) == seq

\* results.sort((a, b) => b.timestamp - a.timestamp), a stable sort
RECURSIVE sortByTimestampDesc(_)
sortByTimestampDesc(seq) ==
  IF seq = <<>> THEN <<>>
  ELSE InsertByTimestamp(sortByTimestampDesc(SubSeq(seq, 1, Len(seq) - 1)),
                         seq[Len(seq)])

\* A JavaScript value that may or may not be a number (limit, since, status)
Num(n) == [type |-> "number", v |-> n]
Str(n) == [type |-> "string", v |-> n]
JsNull == [type |-> "null", v |-> 0]

\* null where a string is expected (statusText, error, responseBodyError)
NullStr == "<null>"

\* A since string by what it spells: a date-time "1970-MM-DDT00:00:00.mmmZ" by
\* its month, day and millisecond fields, a text that is no date at all
\* ("yesterday"), a string of digits by its number
IsoString(month, day, ms) ==
  [type |-> "string",
   v |-> [kind |-> "iso", month |-> month, day |-> day, ms |-> ms]]
GarbageString ==
  [type |-> "string", v |-> [kind |-> "other", month |-> 0, day |-> 0, ms |-> 0]]
\* The decimal digits of n as a since value ("2")
DigitString(n) ==
  [type |-> "string", v |-> [kind |-> "digits", month |-> 0, day |-> 0, ms |-> n]]

\* Days of 1970 before the first of the month
DaysBefore(month) ==
  <<0, 31, 59, 90, 120, 151, 181, 212, 243, 273, 304, 334>>[month]
DaysIn(month) == <<31, 28, 31, 30, 31, 30, 31, 31, 30, 31, 30, 31>>[month]

\* new Date(text).getTime(): milliseconds since the epoch, NaN for a text that
\* is no date or names a month or day that does not exist
DateParse(text) ==
  IF /\ text.kind = "iso"
     /\ text.month \in 1..12
     /\ text.day \in 1..DaysIn(text.month)
  THEN [isNaN |-> FALSE,
        ms |-> (DaysBefore(text.month) + text.day - 1) * 86400000 + text.ms]
  ELSE [isNaN |-> TRUE, ms |-> 0]

\* normalizeTimestamp: a number as it is, a string through Date, null (modelled
\* by 0, which `if (sinceTs)` drops like null) for NaN and every other value.
normalizeTimestamp(value) ==
  IF value.type = "number" THEN value.v
  ELSE IF value.type = "string"
  THEN LET time == DateParse(value.v)
       IN IF time.isNaN THEN 0 ELSE time.ms
  ELSE 0

\* `if (since)`: undefined, 0 and "" are falsy
SinceGiven(filters) ==
  /\ "since" \in DOMAIN filters
  /\ filters.since.type \in {"number", "string"}
  /\ ~(filters.since.type = "number" /\ filters.since.v = 0)

\* A url or pattern is a sequence of characters.  String.prototype.toLowerCase
\* per character, which is what the "i" flag compares under
toLowerCase(c) == IF c = "A" THEN "a" ELSE IF c = "P" THEN "p" ELSE c

\* The atoms of the regular expression makeWildcardRegExp builds from the
\* characters of pattern read so far; [ok |-> FALSE] is the SyntaxError of
\* new RegExp ("Nothing to repeat").  pattern.replace(/[.+^${}()|\[\]\\]/g,
\* "\\$&") escaped the other metacharacters: an escaped character and every character
\* that is no metacharacter is a literal atom; "*" became ".*"; "?" is not
\* escaped and stays the quantifier of the atom before it (optional), or the
\* lazy mark of an atom that already has a quantifier.
RECURSIVE wildcardAtoms(_)
wildcardAtoms(pattern) ==
  IF pattern = <<>> THEN [ok |-> TRUE, atoms |-> <<>>]
  ELSE LET before == wildcardAtoms(SubSeq(pattern, 1, Len(pattern) - 1))
           c == pattern[Len(pattern)]
           n == Len(before.atoms)
       IN IF ~before.ok THEN before
          ELSE IF c = "*"
          THEN [ok |-> TRUE,
                atoms |-> Append(before.atoms,
                  [any |-> TRUE, c |-> ".", quant |-> "*", lazy |-> FALSE])]
          ELSE IF c = "?"
          THEN IF n = 0 \/ before.atoms[n].lazy
               THEN [ok |-> FALSE, atoms |-> <<>>]
               ELSE IF before.atoms[n].quant = "1"
               THEN [ok |-> TRUE,
                     atoms |-> [before.atoms EXCEPT ![n].quant = "?"]]
               ELSE [ok |-> TRUE,
                     atoms |-> [before.atoms EXCEPT ![n].lazy = TRUE]]
          ELSE [ok |-> TRUE,
                atoms |-> Append(before.atoms,
                  [any |-> FALSE, c |-> c, quant |-> "1", lazy |-> FALSE])]

\* makeWildcardRegExp: [ok, atoms], ok = FALSE for the null of the catch
makeWildcardRegExp(pattern) == wildcardAtoms(pattern)

AtomMatches(atom, c) == atom.any \/ toLowerCase(atom.c) = toLowerCase(c)

\* The atoms from index i on match text at position j (a prefix of the rest)
RECURSIVE matchHere(_, _, _, _)
matchHere(atoms, i, text, j) ==
  IF i > Len(atoms) THEN TRUE
  ELSE LET atom == atoms[i]
           one == j <= Len(text) /\ AtomMatches(atom, text[j])
       IN CASE atom.quant = "1" -> one /\ matchHere(atoms, i + 1, text, j + 1)
            [] atom.quant = "?" -> \/ matchHere(atoms, i + 1, text, j)
                                   \/ one /\ matchHere(atoms, i + 1, text, j + 1)
            [] atom.quant = "*" -> \/ matchHere(atoms, i + 1, text, j)
                                   \/ one /\ matchHere(atoms, i, text, j + 1)

\* RegExp.prototype.test: the expression has no anchors, so a match may start
\* at any position of text
regExpTest(atoms, text) ==
  \E start \in 1..(Len(text) + 1) : matchHere(atoms, 1, text, start)

\* if (urlPattern) { pattern = makeWildcardRegExp(urlPattern); if (pattern) ... }
filterUrl(results, filters) ==
  IF "urlPattern" \in DOMAIN filters /\ filters.urlPattern # <<>>
  THEN LET pattern == makeWildcardRegExp(filters.urlPattern)
       IN IF pattern.ok
          THEN SelectRecs(results, LAMBDA entry : regExpTest(pattern.atoms, entry.url))
          ELSE results
  ELSE results

filterPage(results, filters) ==
  IF "pageId" \in DOMAIN filters /\ filters.pageId # 0
  THEN SelectRecs(results, LAMBDA entry : entry.pageId = filters.pageId)
  ELSE results

filterStatus(results, filters) ==
  IF "status" \in DOMAIN filters
  THEN SelectRecs(results, LAMBDA entry : entry.status = Num(filters.status))
  ELSE results

\* the since filter as an exclusive bound
filterSinceExclusive(results, filters) ==
  IF SinceGiven(filters) /\ normalizeTimestamp(filters.since) # 0
  THEN SelectRecs(results,
         LAMBDA entry : entry.timestamp > normalizeTimestamp(filters.since))
  ELSE results

filterSince(results, filters) ==
  IF SinceGiven(filters) /\ normalizeTimestamp(filters.since) # 0
  THEN SelectRecs(results,
         LAMBDA entry : entry.timestamp >= normalizeTimestamp(filters.since))
  ELSE results

\* typeof limit === "number" && limit > 0 ? results.slice(0, limit) : results
applyLimit(results, filters) ==
  IF /\ "limit" \in DOMAIN filters
     /\ filters.limit.type = "number"
     /\ filters.limit.v > 0
  THEN SubSeq(results, 1, Min(filters.limit.v, Len(results)))
  ELSE results

\* queryRequests that counts total after the limit is applied
queryRequestsTotalAfterLimit(storage, filters) ==
  LET filtered == filterSince(filterStatus(filterUrl(filterPage(storage.requests, filters),
                                                     filters), filters), filters)
      sorted == applyLimit(sortByTimestampDesc(filtered), filters)
  IN [total |-> Len(sorted), results |-> sorted]

\* RequestStorage.queryRequests
queryRequests(storage, filters) ==
  LET filtered == filterSince(filterStatus(filterUrl(filterPage(storage.requests, filters),
                                                     filters), filters), filters)
      sorted == sortByTimestampDesc(filtered)
  IN [total |-> Len(sorted), results |-> applyLimit(sorted, filters)]

\* RequestStorage.clearRequests: [storage, returned count]
\* clearRequests that restarts the numbering when it empties the store
clearRequestsRestarting(storage, pageId) ==
  LET kept == IF pageId = 0 THEN <<>>
              ELSE SelectRecs(storage.requests,
                              LAMBDA request : request.pageId # pageId)
  IN [storage |-> [storage EXCEPT !.requests = kept,
                                  !.requestCounter = IF kept = <<>> THEN 0 ELSE @],
      ret |-> Len(storage.requests) - Len(kept)]

\* clearRequests that forgets the page and clears everything
clearRequestsOfAllPages(storage, pageId) ==
  [storage |-> [storage EXCEPT !.requests = <<>>],
   ret |-> Len(storage.requests)]

clearRequests(storage, pageId) ==
  IF pageId = 0
  THEN [storage |-> [storage EXCEPT !.requests = <<>>],
        ret |-> Len(storage.requests)]
  ELSE LET kept == SelectRecs(storage.requests,
                              LAMBDA request : request.pageId # pageId)
       IN [storage |-> [storage EXCEPT !.requests = kept],
           ret |-> Len(storage.requests) - Len(kept)]

registerPageMonitor(storage, pageId, monitorId) ==
  [storage EXCEPT !.activePageMonitors =
     {m \in @ : m[1] # pageId} \cup {<<pageId, monitorId>>}]

unregisterPageMonitor(storage, pageId) ==
  [storage EXCEPT !.activePageMonitors = {m \in @ : m[1] # pageId}]

\* RequestStorage.reset
reset(storage) ==
  [requests |-> <<>>, requestCounter |-> 0, activePageMonitors |-> {}]

RECURSIVE SumSeq(_)
SumSeq(seq) == IF seq = <<>> THEN 0 ELSE Head(seq) + SumSeq(Tail(seq))

\* let n = 0; for (const entry of ...) n += F(entry)
SumOver(seq, F(_)) == SumSeq([i \in DOMAIN seq |-> F(seq[i])])

\* entry.requestBodySize ?? reqSaved
OrDefault(entry, f, d) == IF f \in DOMAIN entry THEN entry[f] ELSE d

\* RequestStorage.getUsage
getUsage(storage) ==
  LET rs == storage.requests
      reqSaved(e) == OrDefault(e, "requestBodyBytes", 0)
      resSaved(e) == OrDefault(e, "responseBodyBytes", 0)
      requestBytes == SumOver(rs, reqSaved)
      responseBytes == SumOver(rs, resSaved)
  IN [totalRequests |-> Len(rs),
      requestBytes |-> requestBytes,
      requestOriginalBytes |->
        SumOver(rs, LAMBDA e : OrDefault(e, "requestBodySize", reqSaved(e))),
      requestTruncated |->
        SumOver(rs, LAMBDA e : IF e.requestBodyTruncated THEN 1 ELSE 0),
      responseBytes |-> responseBytes,
      responseOriginalBytes |->
        SumOver(rs, LAMBDA e : OrDefault(e, "responseBodySize", resSaved(e))),
      responseTruncated |->
        SumOver(rs, LAMBDA e : IF e.responseBodyTruncated THEN 1 ELSE 0),
      estimatedMemoryBytes |-> requestBytes + responseBytes]

\* RequestStorage.getStats, the counts
getStats(storage) ==
  [total |-> Len(storage.requests),
   activeMonitors |-> Cardinality(storage.activePageMonitors),
   usage |-> getUsage(storage)]

\* ------------------------------------------------------------- PageTracker
\* new PageTracker(options), the fields; options.limits is not read
PageTracker(options, monitorId) ==
  [context |-> options.context,
   page |-> options.page,
   pageId |-> options.pageId,
   maxBodyLength |->
     IF "maxBodyLength" \in DOMAIN options THEN options.maxBodyLength ELSE 64 * 1024,
   maxPostDataLength |->
     IF "maxPostDataLength" \in DOMAIN options THEN options.maxPostDataLength
     ELSE 32 * 1024,
   monitorId |-> monitorId,
   disposed |-> FALSE]

\* safeTruncate with the comparison `value.length >= maxLength`
safeTruncateAtLimit(produced, maxLength) ==
  IF produced.throws THEN [value |-> NullTxt, truncated |-> FALSE]
  ELSE IF ~Truthy(produced.value)
       THEN [value |-> produced.value, truncated |-> FALSE]
  ELSE IF produced.value.len >= maxLength
       THEN [value |-> slice0(produced.value, maxLength), truncated |-> TRUE]
  ELSE [value |-> produced.value, truncated |-> FALSE]

\* safeTruncate(producer, maxLength); produced is what producer() does
safeTruncate(produced, maxLength) ==
  IF produced.throws THEN [value |-> NullTxt, truncated |-> FALSE]
  ELSE IF ~Truthy(produced.value)
       THEN [value |-> produced.value, truncated |-> FALSE]
  ELSE IF produced.value.len > maxLength
       THEN [value |-> slice0(produced.value, maxLength), truncated |-> TRUE]
  ELSE [value |-> produced.value, truncated |-> FALSE]

\* _readResponseBody that swallows a failed read without recording it
readResponseBodySilent(tracker, settled) ==
  IF settled.kind # "string"
  THEN [body |-> NullTxt, truncated |-> FALSE, error |-> NullStr]
  ELSE LET truncated == settled.text.len > tracker.maxBodyLength
       IN [body |-> IF truncated THEN slice0(settled.text, tracker.maxBodyLength)
                    ELSE settled.text,
           truncated |-> truncated,
           error |-> NullStr]

\* PageTracker._readResponseBody after `await response.text()` has settled
readResponseBody(tracker, settled) ==
  IF settled.kind = "throws"
  THEN [body |-> NullTxt, truncated |-> FALSE, error |-> settled.message]
  ELSE IF settled.kind # "string"
       THEN [body |-> NullTxt, truncated |-> FALSE, error |-> NullStr]
  ELSE LET truncated == settled.text.len > tracker.maxBodyLength
       IN [body |-> IF truncated THEN slice0(settled.text, tracker.maxBodyLength)
                    ELSE settled.text,
           truncated |-> truncated,
           error |-> NullStr]

\* A plain object (headers, timing) by its own enumerable entries, a set of
\* <<name, value>> pairs; null where an object is expected
Obj(entries) == [isObj |-> TRUE, entries |-> entries]
NullObj == [isObj |-> FALSE, entries |-> {}]

\* obj[name] = value
ObjSet(obj, name, value) ==
  [obj EXCEPT !.entries = {e \in @ : e[1] # name} \cup {<<name, value>>}]

\* A header value JSON.stringify leaves out
Undefined == "<undefined>"

\* safeClone(value): JSON.parse(JSON.stringify(value)), a new object with the
\* entries JSON keeps
safeClone(value) ==
  IF ~value.isObj THEN NullObj
  ELSE Obj({e \in value.entries : e[2] # Undefined})

\* What request.headers(), response.headers() and response.timing() return
RequestHeaders == Obj({<<"accept", "*/*">>, <<"x-trace", Undefined>>})
ResponseHeaders == Obj({<<"content-type", "text/html">>})
ResponseTiming == [startTime |-> 5, responseStart |-> 7, responseEnd |-> 9]

\* safeTiming(response) for a response whose timing() is t
safeTiming(t) ==
  Obj({<<"startTime", t.startTime>>,
       <<"responseStart", t.responseStart - t.startTime>>,
       <<"responseEnd", t.responseEnd - t.startTime>>,
       <<"duration", t.responseEnd - t.startTime>>})

\* The accessors of a live request that throw inside _onRequest's own try
\* block, and those wrapped by a helper that catches
AbortingReads == {"url", "method", "resourceType", "isNavigationRequest", "headers"}
GuardedReads == {"frame", "postData"}

\* safeFrameUrl(request)
safeFrameUrl(request) ==
  IF request.unreadable = "frame" THEN NullStr ELSE "https://a.p/"

\* The object PageTracker._onRequest hands to saveRequest
requestData(tracker, request) ==
  LET t == safeTruncate([throws |-> request.unreadable = "postData",
                         value |-> request.postData],
                        tracker.maxPostDataLength)
  IN [pageId |-> tracker.pageId,
      url |-> request.url,
      method |-> "GET",
      resourceType |-> "document",
      isNavigationRequest |-> TRUE,
      frameUrl |-> safeFrameUrl(request),
      requestHeaders |-> safeClone(RequestHeaders),
      requestBody |-> t.value,
      requestBodyTruncated |-> t.truncated,
      status |-> JsNull,
      statusText |-> NullStr,
      responseHeaders |-> NullObj,
      responseBody |-> NullTxt,
      responseBodyTruncated |-> FALSE,
      responseBodyError |-> NullStr,
      timing |-> NullObj,
      error |-> NullStr]

\* The patch PageTracker._onResponse hands to updateRequest; handler holds
\* the status and statusText read before the await
responsePatch(handler, bodyResult) ==
  [status |-> Num(handler.status),
   statusText |-> handler.statusText,
   responseHeaders |-> safeClone(ResponseHeaders),
   responseBody |-> bodyResult.body,
   responseBodyTruncated |-> bodyResult.truncated,
   responseBodyError |-> bodyResult.error,
   timing |-> safeTiming(ResponseTiming)]

\* The patch PageTracker._onRequestFailed hands to updateRequest
failedPatch(errorText) ==
  [status |-> Num(0),
   statusText |-> "FAILED",
   error |-> IF errorText = "" THEN "Request failed" ELSE errorText]

\* ------------------------------------------------------ limits (state.js)
\* A value given as maxRequestBodyKB / maxResponseBodyKB or in the
\* environment: a number in tenths (KBTenths(15) is 1.5), a string that
\* Number() turns into that number, a string that is no number, or null.
KBTenths(t) == [type |-> "number", tenths |-> t, nan |-> FALSE]
KBString(t) == [type |-> "string", tenths |-> t, nan |-> FALSE]
KBGarbage == [type |-> "string", tenths |-> 0, nan |-> TRUE]
KBNull == [type |-> "null", tenths |-> 0, nan |-> FALSE]

\* What parseLimitOption returns undefined for
LimitOptionRejected(value) ==
  value.type = "null" \/ value.nan \/ value.tenths <= 0

\* parseLimitOption that rounds down
parseLimitOptionFloor(value) == value.tenths \div 10

\* parseLimitOption for an accepted value: Math.round(Number(value))
parseLimitOption(value) == (value.tenths + 5) \div 10

\* configureNetworkLimits(options): the next currentLimits
configureNetworkLimits(limits, options) ==
  LET next1 == IF "maxRequestBodyKB" \in DOMAIN options
                  /\ ~LimitOptionRejected(options.maxRequestBodyKB)
               THEN [limits EXCEPT !.maxRequestBodyBytes =
                                     parseLimitOption(options.maxRequestBodyKB) * KB]
               ELSE limits
      next2 == IF "maxResponseBodyKB" \in DOMAIN options
                  /\ ~LimitOptionRejected(options.maxResponseBodyKB)
               THEN [next1 EXCEPT !.maxResponseBodyBytes =
                                    parseLimitOption(options.maxResponseBodyKB) * KB]
               ELSE next1
  IN next2

\* ------------------------------------------------------------------ state
VARIABLES
  currentLimits,   \* state.js currentLimits
  pageCounter,     \* state.js pageCounter
  trackerCounter,  \* pageTracker trackerCounter
  contextState,    \* state.js contextState: context -> {storage, trackers}
  trackers,        \* every PageTracker created so far, by the n of its page-n
  requests,        \* the browser's live request objects, with their responses
  handlers,        \* _onResponse calls suspended in `await response.text()`
  now,             \* Date.now()
  returned         \* what the last call of a tool's storage method returned

vars == <<currentLimits, pageCounter, trackerCounter, contextState, trackers,
          requests, handlers, now, returned>>

\* ----------------------------------------------------------------- inputs
PostDataValues == {NullTxt, Txt(32 * 1024, 3), Txt(32 * 1024 + 1, 1)}

\* What `await response.text()` settles to
ResponseTexts ==
  {[kind |-> "string", text |-> Txt(64 * 1024, 1), message |-> NullStr],
   [kind |-> "string", text |-> Txt(70000, 1), message |-> NullStr],
   [kind |-> "throws", text |-> NullTxt, message |-> "body unavailable"]}

FailureTexts == {"net::ERR_FAILED", ""}

LimitOptions ==
  {[maxRequestBodyKB |-> KBTenths(10)],
   [maxRequestBodyKB |-> KBTenths(4)],
   [maxResponseBodyKB |-> KBTenths(15)],
   [maxRequestBodyKB |-> KBTenths(10), maxResponseBodyKB |-> KBTenths(10)],
   [maxRequestBodyKB |-> KBTenths(0), maxResponseBodyKB |-> KBTenths(0 - 10)],
   [maxRequestBodyKB |-> KBNull, maxResponseBodyKB |-> KBGarbage]}

LimitEnvs ==
  {[x \in {} |-> 0],
   [PLAYWRIGHT_MCP_NETWORK_MAX_REQUEST_KB |-> KBString(10)],
   [PLAYWRIGHT_MCP_NETWORK_MAX_RESPONSE_KB |-> KBGarbage]}

NoState == [exists |-> FALSE, storage |-> NewStorage, trackers |-> {}]

NoResponse == [kind |-> "none", text |-> NullTxt, message |-> NullStr]

\* A request object the browser has not created yet
NoRequest ==
  [started |-> FALSE, page |-> "p1", url |-> <<>>, postData |-> NullTxt,
   requestId |-> 0, responded |-> FALSE, response |-> NoResponse,
   failed |-> FALSE, unreadable |-> "none"]

NoHandler == [suspended |-> FALSE, tracker |-> 0, requestId |-> 0,
              status |-> 0, statusText |-> NullStr]

Nothing == [op |-> "none"]

\* A handler body without its try block: what it throws reaches the emitter
rethrown(threw) == IF threw THEN [op |-> "throw"] ELSE Nothing

\* try { ... } catch (error) { console.warn(...) } around a handler body:
\* what reaches the emitter of the event when the body threw or did not
caught(threw) == Nothing

\* request.failure() throws
Thrown == "<throws>"

Init ==
  /\ currentLimits = DEFAULT_LIMITS
  /\ pageCounter = 0
  /\ trackerCounter = 0
  /\ contextState = [c \in Contexts |-> NoState]
  /\ trackers = <<>>
  /\ requests = [r \in 1..MaxRequests |-> NoRequest]
  /\ handlers = [r \in 1..MaxRequests |-> NoHandler]
  /\ now = 1
  /\ returned = Nothing

\* ------------------------------------------------------- lifecycle helpers
\* ensureContextState(context): contextState afterwards
ensureContextState(cs, context) ==
  IF cs[context].exists THEN cs
  ELSE [cs EXCEPT ![context] =
          [exists |-> TRUE, storage |-> NewStorage, trackers |-> {}]]

\* state.trackers.get(page): the n of the tracker's page-n, 0 for undefined
TrackerOf(state, page) ==
  IF \E e \in state.trackers : e[1] = page
  THEN (CHOOSE e \in state.trackers : e[1] = page)[2]
  ELSE 0

\* The trackers whose handlers page.on() has subscribed and page.off() has not
Listeners(page) ==
  {t \in DOMAIN trackers : trackers[t].page = page /\ ~trackers[t].disposed}

\* dispose() that also drops the records of the store
disposeAllDroppingRecords(ts, storage) ==
  LET live == {t \in ts : ~trackers[t].disposed}
  IN [trackers |-> [t \in DOMAIN trackers |->
                      IF t \in live THEN [trackers[t] EXCEPT !.disposed = TRUE]
                      ELSE trackers[t]],
      storage |-> [storage EXCEPT !.requests = <<>>,
                                  !.activePageMonitors =
                     {m \in @ : m[1] \notin {trackers[t].pageId : t \in live}}]]

\* dispose() of every live tracker, whichever context it belongs to
disposeAllEverywhere(ts, storage) ==
  LET live == {t \in DOMAIN trackers : ~trackers[t].disposed}
  IN [trackers |-> [t \in DOMAIN trackers |->
                      IF t \in live THEN [trackers[t] EXCEPT !.disposed = TRUE]
                      ELSE trackers[t]],
      storage |-> [storage EXCEPT !.activePageMonitors =
                     {m \in @ : m[1] \notin {trackers[t].pageId : t \in live}}]]

\* tracker.dispose() for the trackers ts of one context: [trackers, storage]
\* dispose() without the check of _disposed
disposeAllAgain(ts, storage) ==
  [trackers |-> [t \in DOMAIN trackers |->
                   IF t \in ts THEN [trackers[t] EXCEPT !.disposed = TRUE]
                   ELSE trackers[t]],
   storage |-> [storage EXCEPT !.activePageMonitors =
                  {m \in @ : m[1] \notin {trackers[t].pageId : t \in ts}}]]

disposeAll(ts, storage) ==
  LET live == {t \in ts : ~trackers[t].disposed}
  IN [trackers |-> [t \in DOMAIN trackers |->
                      IF t \in live THEN [trackers[t] EXCEPT !.disposed = TRUE]
                      ELSE trackers[t]],
      storage |-> [storage EXCEPT !.activePageMonitors =
                     {m \in @ : m[1] \notin {trackers[t].pageId : t \in live}}]]

\* The storage a tracker writes to (this.storage)
StorageOf(t) == contextState[trackers[t].context].storage

\* ---------------------------------------------------------------- actions
\* configureNetworkLimits that also hands the new limits to the live trackers
ConfigureNetworkLimitsAndTrackers(options) ==
  /\ currentLimits' = configureNetworkLimits(currentLimits, options)
  /\ trackers' =
       [t \in DOMAIN trackers |->
          [trackers[t] EXCEPT
             !.maxPostDataLength = currentLimits'.maxRequestBodyBytes,
             !.maxBodyLength = currentLimits'.maxResponseBodyBytes]]
  /\ returned' = Nothing
  /\ UNCHANGED <<pageCounter, trackerCounter, contextState, requests,
                 handlers, now>>

\* configureNetworkLimits(options)
ConfigureNetworkLimits(options) ==
  /\ currentLimits' = configureNetworkLimits(currentLimits, options)
  /\ returned' = Nothing
  /\ UNCHANGED <<pageCounter, trackerCounter, contextState, trackers, requests,
                 handlers, now>>

\* configureNetworkLimitsFromEnv() with the two variables set as in env
\* (a variable that is not set is not in its DOMAIN)
ConfigureNetworkLimitsFromEnv(env) ==
  LET o1 == IF "PLAYWRIGHT_MCP_NETWORK_MAX_REQUEST_KB" \in DOMAIN env
            THEN [maxRequestBodyKB |-> env.PLAYWRIGHT_MCP_NETWORK_MAX_REQUEST_KB]
            ELSE <<>>
      options == IF "PLAYWRIGHT_MCP_NETWORK_MAX_RESPONSE_KB" \in DOMAIN env
                 THEN Assign(o1, [maxResponseBodyKB |->
                                    env.PLAYWRIGHT_MCP_NETWORK_MAX_RESPONSE_KB])
                 ELSE o1
  IN /\ currentLimits' = IF DOMAIN options # {}
                         THEN configureNetworkLimits(currentLimits, options)
                         ELSE currentLimits
     /\ returned' = Nothing
     /\ UNCHANGED <<pageCounter, trackerCounter, contextState, trackers, requests,
                    handlers, now>>

\* The options attachPage hands to new PageTracker
trackerOptions(context, page, pageId, limits) ==
  [context |-> context, page |-> page, pageId |-> pageId, limits |-> limits]

\* attachPage without the `state.trackers.has(page)` return
attachPageAlways(page) ==
  LET context == PageContext(page)
      cs == ensureContextState(contextState, context)
      pageId == pageCounter + 1
      tracker == PageTracker(trackerOptions(context, page, pageId, currentLimits),
                             trackerCounter + 1)
  IN /\ pageCounter < MaxTrackers
     /\ pageCounter' = pageId
     /\ trackerCounter' = trackerCounter + 1
     /\ trackers' = Append(trackers, tracker)
     /\ contextState' =
          [cs EXCEPT ![context].trackers =
                       {e \in @ : e[1] # page} \cup {<<page, pageId>>},
                     ![context].storage =
                       registerPageMonitor(@, pageId, tracker.monitorId)]
     /\ UNCHANGED <<currentLimits, requests, handlers, now>>

\* attachPage with a tracker that does not register its monitor
attachPageUnregistered(page) ==
  LET context == PageContext(page)
      cs == ensureContextState(contextState, context)
      existing == TrackerOf(cs[context], page)
      pageId == pageCounter + 1
      tracker == PageTracker(trackerOptions(context, page, pageId, currentLimits),
                             trackerCounter + 1)
  IN IF existing # 0
     THEN /\ contextState' = cs
          /\ UNCHANGED <<currentLimits, pageCounter, trackerCounter, trackers,
                         requests, handlers, now>>
     ELSE /\ pageCounter < MaxTrackers
          /\ pageCounter' = pageId
          /\ trackerCounter' = trackerCounter + 1
          /\ trackers' = Append(trackers, tracker)
          /\ contextState' = [cs EXCEPT ![context].trackers = @ \cup {<<page, pageId>>}]
          /\ UNCHANGED <<currentLimits, requests, handlers, now>>

\* attachPage(context, page): what it does to the module state and the trackers
attachPage(page) ==
  LET context == PageContext(page)
      cs == ensureContextState(contextState, context)
      existing == TrackerOf(cs[context], page)
      pageId == pageCounter + 1
      tracker == PageTracker(trackerOptions(context, page, pageId, currentLimits),
                             trackerCounter + 1)
  IN IF existing # 0
     THEN /\ contextState' = cs
          /\ UNCHANGED <<currentLimits, pageCounter, trackerCounter, trackers,
                         requests, handlers, now>>
     ELSE /\ pageCounter < MaxTrackers
          /\ pageCounter' = pageId
          /\ trackerCounter' = trackerCounter + 1
          /\ trackers' = Append(trackers, tracker)
          /\ contextState' =
               [cs EXCEPT ![context].trackers = @ \cup {<<page, pageId>>},
                          ![context].storage =
                            registerPageMonitor(@, pageId, tracker.monitorId)]
          /\ UNCHANGED <<currentLimits, requests, handlers, now>>

\* attachPage(this, page) in the patched Context._onPageCreated, which drops
\* the tracker attachPage returns
AttachPage(page) ==
  /\ attachPage(page)
  /\ returned' = Nothing

\* attachPage(context, page) called for its result: the tracker it returns is
\* the one the context's map holds for the page afterwards
AttachPageCall(page) ==
  /\ attachPage(page)
  /\ returned' = [op |-> "attachPage", context |-> PageContext(page),
                  page |-> page,
                  result |-> TrackerOf(contextState'[PageContext(page)], page)]

\* detachPage that looks the context up with ensureContextState
detachPageEnsuring(context, page) ==
  LET cs == ensureContextState(contextState, context)
      t == TrackerOf(cs[context], page)
      d == disposeAll({t}, cs[context].storage)
  IN /\ IF t # 0
        THEN /\ trackers' = d.trackers
             /\ contextState' =
                  [cs EXCEPT ![context].storage = d.storage,
                             ![context].trackers = {e \in @ : e[1] # page}]
        ELSE /\ contextState' = cs
             /\ UNCHANGED trackers
     /\ UNCHANGED <<currentLimits, pageCounter, trackerCounter, requests,
                    handlers, now>>

\* detachPage(context, page): what it does to the module state and the trackers
detachPage(context, page) ==
  LET state == contextState[context]
      t == TrackerOf(state, page)
      d == disposeAll({t}, state.storage)
  IN /\ IF state.exists /\ t # 0
        THEN /\ trackers' = d.trackers
             /\ contextState' =
                  [contextState EXCEPT ![context].storage = d.storage,
                                       ![context].trackers = {e \in @ : e[1] # page}]
        ELSE UNCHANGED <<trackers, contextState>>
     /\ UNCHANGED <<currentLimits, pageCounter, trackerCounter, requests,
                    handlers, now>>

\* detachPage(this, tab.page) in the patched Context._onPageClosed
DetachPage(context, page) ==
  /\ detachPage(context, page)
  /\ returned' = Nothing

\* detachPage(context, page) called directly; it returns undefined
DetachPageCall(context, page) ==
  /\ detachPage(context, page)
  /\ returned' = [op |-> "detachPage", context |-> context, page |-> page]

\* resetContext that also restarts the numbering of pages
resetContextRestartingPages(context) ==
  LET state == contextState[context]
      d == disposeAll({e[2] : e \in state.trackers}, state.storage)
  IN /\ IF state.exists
        THEN /\ trackers' = d.trackers
             /\ contextState' =
                  [contextState EXCEPT ![context].storage = reset(d.storage),
                                       ![context].trackers = {}]
             /\ pageCounter' = 0
        ELSE UNCHANGED <<trackers, contextState, pageCounter>>
     /\ UNCHANGED <<currentLimits, trackerCounter, requests, handlers, now>>

\* resetContext(context), also what the patched closeBrowserContext and
\* dispose run in their finally
resetContext(context) ==
  LET state == contextState[context]
      d == disposeAll({e[2] : e \in state.trackers}, state.storage)
  IN /\ IF state.exists
        THEN /\ trackers' = d.trackers
             /\ contextState' =
                  [contextState EXCEPT ![context].storage = reset(d.storage),
                                       ![context].trackers = {}]
        ELSE UNCHANGED <<trackers, contextState>>
     /\ UNCHANGED <<currentLimits, pageCounter, trackerCounter, requests,
                    handlers, now>>

\* resetContext(context) called for its effect alone
ResetContext(context) ==
  /\ resetContext(context)
  /\ returned' = Nothing

\* The patched method without `finally`: no reset when the original throws
CloseOrDisposeUnlessThrown(context, method, originalThrows) ==
  /\ IF originalThrows
     THEN UNCHANGED <<currentLimits, pageCounter, trackerCounter, contextState,
                      trackers, requests, handlers, now>>
     ELSE resetContext(context)
  /\ returned' = [op |-> method, context |-> context, threw |-> originalThrows]

\* The patched Context.closeBrowserContext / Context.dispose (method says
\* which): the original method returns or throws, then `finally` runs
\* resetContext(this); what the original returned or threw goes to the caller
CloseOrDispose(context, method, originalThrows) ==
  /\ resetContext(context)
  /\ returned' = [op |-> method, context |-> context, threw |-> originalThrows]

\* The page emits "request" for a new request object; unreadable names the
\* accessor of the request that throws ("none": all can be read).
OnRequestReading(page, url, postData, unreadable) ==
  \E r \in 1..MaxRequests :
    /\ ~requests[r].started
    /\ \A q \in 1..(r - 1) : requests[q].started
    /\ LET request == [NoRequest EXCEPT !.started = TRUE, !.page = page,
                                        !.url = url, !.postData = postData,
                                        !.unreadable = unreadable]
           ts == Listeners(page)
           t == CHOOSE x \in ts : TRUE
           storage == saveRequest(StorageOf(t), requestData(trackers[t], request), now)
       IN IF ts = {} \/ unreadable \in AbortingReads
          THEN /\ requests' = [requests EXCEPT ![r] = request]
               /\ UNCHANGED contextState
          ELSE /\ requests' = [requests EXCEPT ![r] =
                                 [request EXCEPT !.requestId = storage.requestCounter]]
               /\ contextState' =
                    [contextState EXCEPT ![trackers[t].context].storage = storage]
    /\ returned' = caught(Listeners(page) # {} /\ unreadable \in AbortingReads)
    /\ UNCHANGED <<currentLimits, pageCounter, trackerCounter, trackers, handlers, now>>

\* "request" where readFails says that request.url() throws
OnRequestTo(page, url, postData, readFails) ==
  OnRequestReading(page, url, postData, IF readFails THEN "url" ELSE "none")

\* "request" for a request to the url the other scenarios use
TypicalUrl == <<"a", ".", "p">>

OnRequest(page, postData, readFails) ==
  OnRequestTo(page, TypicalUrl, postData, readFails)

\* "response" handled only when no other response handler is suspended, as
\* it would be if handlers ran one after the other
OnResponseSerial(r, readFails) ==
  /\ \A q \in 1..MaxRequests : ~handlers[q].suspended
  /\ requests[r].started
  /\ ~requests[r].responded
  /\ ~requests[r].failed
  /\ requests' = [requests EXCEPT ![r].responded = TRUE]
  /\ LET ts == Listeners(requests[r].page)
         t == CHOOSE x \in ts : TRUE
         requestId == requests[r].requestId
     IN handlers' = IF ts # {} /\ requestId # 0 /\ ~readFails
                    THEN [handlers EXCEPT ![r] =
                            [suspended |-> TRUE, tracker |-> t,
                             requestId |-> requestId,
                             status |-> 200, statusText |-> "OK"]]
                    ELSE handlers
  /\ returned' = caught(Listeners(requests[r].page) # {} /\ readFails)
  /\ UNCHANGED <<currentLimits, pageCounter, trackerCounter, contextState,
                 trackers, now>>

\* The page emits "response" for request r: _onResponse runs up to its
\* `await response.text()`; readFails says that response.headers(), status()
\* or statusText() throws.
OnResponse(r, readFails) ==
  /\ requests[r].started
  /\ ~requests[r].responded
  /\ ~requests[r].failed
  /\ requests' = [requests EXCEPT ![r].responded = TRUE]
  /\ LET ts == Listeners(requests[r].page)
         t == CHOOSE x \in ts : TRUE
         requestId == requests[r].requestId
     IN handlers' = IF ts # {} /\ requestId # 0 /\ ~readFails
                    THEN [handlers EXCEPT ![r] =
                            [suspended |-> TRUE, tracker |-> t,
                             requestId |-> requestId,
                             status |-> 200, statusText |-> "OK"]]
                    ELSE handlers
  /\ returned' = caught(Listeners(requests[r].page) # {} /\ readFails)
  /\ UNCHANGED <<currentLimits, pageCounter, trackerCounter, contextState,
                 trackers, now>>

\* `await response.text()` settles, to settled, and the rest of _onResponse
\* runs; the response object keeps what its body turned out to be.
OnResponseBody(r, settled) ==
  /\ handlers[r].suspended
  /\ LET h == handlers[r]
         tracker == trackers[h.tracker]
         bodyResult == readResponseBody(tracker, settled)
     IN contextState' =
          [contextState EXCEPT ![tracker.context].storage =
             updateRequest(@, h.requestId, responsePatch(h, bodyResult))]
  /\ handlers' = [handlers EXCEPT ![r] = NoHandler]
  /\ requests' = [requests EXCEPT ![r].response = settled]
  /\ returned' = Nothing
  /\ UNCHANGED <<currentLimits, pageCounter, trackerCounter, trackers, now>>

\* The page emits "requestfailed" for request r; errorText is what
\* request.failure()?.errorText gives, or Thrown when failure() throws
OnRequestFailed(r, errorText) ==
  /\ requests[r].started
  /\ ~requests[r].failed
  /\ requests' = [requests EXCEPT ![r].failed = TRUE]
  /\ LET ts == Listeners(requests[r].page)
         t == CHOOSE x \in ts : TRUE
         requestId == requests[r].requestId
     IN IF ts = {} \/ requestId = 0 \/ errorText = Thrown
        THEN UNCHANGED contextState
        ELSE contextState' =
               [contextState EXCEPT ![trackers[t].context].storage =
                  updateRequest(@, requestId, failedPatch(errorText))]
  /\ returned' = caught(Listeners(requests[r].page) # {} /\ errorText = Thrown)
  /\ UNCHANGED <<currentLimits, pageCounter, trackerCounter, trackers, handlers, now>>

\* Time passes between two calls of Date.now()
Tick ==
  /\ now < MaxTime
  /\ now' = now + 1
  /\ returned' = Nothing
  /\ UNCHANGED <<currentLimits, pageCounter, trackerCounter, contextState,
                 trackers, requests, handlers>>

\* tracker.dispose() called on tracker t by whoever holds it
Dispose(t) ==
  /\ t \in DOMAIN trackers
  /\ LET d == disposeAll({t}, StorageOf(t))
     IN /\ trackers' = d.trackers
        /\ contextState' = [contextState EXCEPT ![trackers[t].context].storage = d.storage]
  /\ returned' = Nothing
  /\ UNCHANGED <<currentLimits, pageCounter, trackerCounter, requests, handlers, now>>

\* A monitor id no tracker has
OtherMonitor == 0

\* getRequestStorage(context).registerPageMonitor(pageId, OtherMonitor)
\* called directly
RegisterPageMonitor(context, pageId) ==
  LET cs == ensureContextState(contextState, context)
  IN /\ contextState' =
          [cs EXCEPT ![context].storage = registerPageMonitor(@, pageId, OtherMonitor)]
     /\ returned' = Nothing
     /\ UNCHANGED <<currentLimits, pageCounter, trackerCounter, trackers,
                    requests, handlers, now>>

\* ------------------------------------------------------------------ tools
EmptyObject == [x \in {} |-> 0]

QueryBaseFilters ==
  {EmptyObject, [pageId |-> 1], [status |-> 200], [since |-> Num(2)],
   [pageId |-> 2, status |-> 0]}

QueryLimits ==
  {EmptyObject, [limit |-> Num(1)], [limit |-> Num(2)], [limit |-> Num(0)],
   [limit |-> Num(0 - 1)], [limit |-> Str(1)]}

\* The filter objects the properties of queryRequests range over
QueryFilters == {Assign(f, l) : f \in QueryBaseFilters, l \in QueryLimits}

\* The filter objects the model's callers pass
CalledFilters ==
  {EmptyObject, [limit |-> Num(1)], [pageId |-> 1, limit |-> Num(1)],
   [status |-> 200, limit |-> Str(1)], [since |-> Num(2), limit |-> Num(0)]}

\* getRequestStorage(context).queryRequests(filters)
QueryRequests(context, filters) ==
  LET cs == ensureContextState(contextState, context)
  IN /\ contextState' = cs
     /\ returned' = [op |-> "queryRequests", context |-> context,
                     filters |-> filters,
                     result |-> queryRequests(cs[context].storage, filters)]
     /\ UNCHANGED <<currentLimits, pageCounter, trackerCounter, trackers,
                    requests, handlers, now>>

\* What a caller may write into an entry of the result it was handed: a
\* top-level field of the entry, or an entry of one of its nested objects
ResultWrites ==
  {[field |-> "statusText", name |-> ""],
   [field |-> "requestHeaders", name |-> "accept"],
   [field |-> "responseHeaders", name |-> "content-type"],
   [field |-> "timing", name |-> "duration"]}

\* The caller of queryRequests writes into entry i of the result it holds.
\* An entry is `{ ...entry }` of the stored record (queryRequests), so its
\* top-level fields are its own, while its requestHeaders, responseHeaders
\* and timing are the very objects the stored record refers to.
MutateResult(i, write) ==
  /\ returned.op = "queryRequests"
  /\ i \in DOMAIN returned.result.results
  /\ LET entry == returned.result.results[i]
         value == IF write.field = "timing" THEN 0 ELSE "tampered"
     IN IF write.name = ""
        THEN /\ returned' = [returned EXCEPT !.result.results[i][write.field] = value]
             /\ UNCHANGED contextState
        ELSE /\ entry[write.field].isObj
             /\ returned' = [returned EXCEPT !.result.results[i][write.field] =
                               ObjSet(@, write.name, value)]
             /\ contextState' =
                  [contextState EXCEPT ![returned.context].storage.requests =
                     [k \in DOMAIN @ |->
                        IF @[k].id = entry.id
                        THEN [@[k] EXCEPT ![write.field] = ObjSet(@, write.name, value)]
                        ELSE @[k]]]
  /\ UNCHANGED <<currentLimits, pageCounter, trackerCounter, trackers,
                 requests, handlers, now>>

\* What RequestStorage.getRequest returns: `this.requests.get(requestId) ?? null`
getRequestResult(storage, requestId) ==
  IF HasRequest(storage, requestId) THEN getRequest(storage, requestId) ELSE JsNull

\* What RequestStorage.updateRequest returns: null, or the updated record
updateRequestResult(storage, requestId, patch) ==
  IF HasRequest(storage, requestId)
  THEN getRequest(updateRequest(storage, requestId, patch), requestId)
  ELSE JsNull

\* getRequestStorage(context).getRequest(requestId)
GetRequest(context, requestId) ==
  LET cs == ensureContextState(contextState, context)
  IN /\ contextState' = cs
     /\ returned' = [op |-> "getRequest", context |-> context,
                     requestId |-> requestId,
                     result |-> getRequestResult(cs[context].storage, requestId)]
     /\ UNCHANGED <<currentLimits, pageCounter, trackerCounter, trackers,
                    requests, handlers, now>>

\* getRequestStorage(context).updateRequest(requestId, patch)
UpdateRequest(context, requestId, patch) ==
  LET cs == ensureContextState(contextState, context)
  IN /\ contextState' =
          [cs EXCEPT ![context].storage = updateRequest(@, requestId, patch)]
     /\ returned' = [op |-> "updateRequest", context |-> context,
                     requestId |-> requestId,
                     result |-> updateRequestResult(cs[context].storage,
                                                    requestId, patch)]
     /\ UNCHANGED <<currentLimits, pageCounter, trackerCounter, trackers,
                    requests, handlers, now>>

\* getRequestDetailsTool.handle(context, {requestId}, response): addError
\* "Request <id> not found." or addResult with the details of the record
GetRequestDetails(context, requestId) ==
  LET cs == ensureContextState(contextState, context)
      request == getRequestResult(cs[context].storage, requestId)
  IN /\ contextState' = cs
     /\ returned' = [op |-> "getRequestDetails", context |-> context,
                     requestId |-> requestId,
                     error |-> (request = JsNull),
                     result |-> request]
     /\ UNCHANGED <<currentLimits, pageCounter, trackerCounter, trackers,
                    requests, handlers, now>>

DEFAULT_LIMIT == 50

\* normalizeSince of the tool: undefined for null, the number for a number and
\* for a string of digits, the string itself for any other string, an Error for
\* every other value.  [throws, undefined, value]
normalizeSince(params) ==
  IF "since" \notin DOMAIN params \/ params.since = JsNull
  THEN [throws |-> FALSE, undefined |-> TRUE, value |-> JsNull]
  ELSE IF params.since.type = "number"
  THEN [throws |-> FALSE, undefined |-> FALSE, value |-> params.since]
  ELSE IF params.since.type = "string"
  THEN IF params.since.v.kind = "digits"
       THEN [throws |-> FALSE, undefined |-> FALSE, value |-> Num(params.since.v.ms)]
       ELSE [throws |-> FALSE, undefined |-> FALSE, value |-> params.since]
  ELSE [throws |-> TRUE, undefined |-> TRUE, value |-> JsNull]

\* The filters getRequestsTool.handle passes to queryRequests
toolFilters(params, normalizedSince) ==
  LET rest == [k \in DOMAIN params \ {"since"} |-> params[k]]
      since == IF normalizedSince.undefined THEN EmptyObject
               ELSE [since |-> normalizedSince.value]
      limit == IF "limit" \in DOMAIN params THEN EmptyObject
               ELSE [limit |-> Num(DEFAULT_LIMIT)]
  IN Assign(Assign(rest, since), limit)

\* getRequestsTool.handle
GetRequests(context, params) ==
  LET cs == ensureContextState(contextState, context)
      normalizedSince == normalizeSince(params)
      filters == toolFilters(params, normalizedSince)
  IN /\ contextState' = cs
     /\ returned' =
          IF normalizedSince.throws
          THEN [op |-> "getRequests", context |-> context, params |-> params,
                throws |-> TRUE]
          ELSE [op |-> "getRequests", context |-> context, params |-> params,
                throws |-> FALSE, filters |-> filters,
                result |-> queryRequests(cs[context].storage, filters)]
     /\ UNCHANGED <<currentLimits, pageCounter, trackerCounter, trackers,
                    requests, handlers, now>>

\* clearRequestsTool.handle: getRequestStorage(context).clearRequests({pageId})
ClearRequests(context, pageId) ==
  LET cs == ensureContextState(contextState, context)
      c == clearRequests(cs[context].storage, pageId)
  IN /\ contextState' = [cs EXCEPT ![context].storage = c.storage]
     /\ returned' = [op |-> "clearRequests", context |-> context,
                     pageId |-> pageId, result |-> c.ret]
     /\ UNCHANGED <<currentLimits, pageCounter, trackerCounter, trackers,
                    requests, handlers, now>>

\* getStatsTool.handle / getUsageTool.handle: getStats() holds getUsage()
GetStats(context) ==
  LET cs == ensureContextState(contextState, context)
  IN /\ contextState' = cs
     /\ returned' = [op |-> "getStats", context |-> context,
                     result |-> getStats(cs[context].storage)]
     /\ UNCHANGED <<currentLimits, pageCounter, trackerCounter, trackers,
                    requests, handlers, now>>

\* ---------------------------------------------------------- specifications
\* The specifications run the same actions from the same initial state;
\* each draws the inputs of the part of the program it looks at from the
\* full sets and fixes the others, so that TLC can finish.

TypicalPostData == Txt(32 * 1024 + 1, 1)
TypicalResponse == [kind |-> "string", text |-> Txt(70000, 1), message |-> NullStr]

\* Lifecycle: two contexts, pages attached, detached and re-attached,
\* contexts reset, stores cleared, while requests are in flight.
Next ==
  \/ \E page \in {"p1", "p3"} : AttachPage(page)
  \/ \E context \in Contexts, page \in {"p1", "p3"} : DetachPage(context, page)
  \/ \E context \in Contexts : ResetContext(context)
  \/ \E page \in {"p1", "p3"} : OnRequest(page, TypicalPostData, FALSE)
  \/ \E r \in 1..MaxRequests : OnResponse(r, FALSE)
  \/ \E r \in 1..MaxRequests : OnResponseBody(r, TypicalResponse)
  \/ \E context \in Contexts : ClearRequests(context, 0)

Spec == Init /\ [][Next]_vars

\* Capture: one tracked page, every kind of body, response and failure.
NextCapture ==
  \/ AttachPage("p1")
  \/ \E postData \in PostDataValues, readFails \in BOOLEAN :
       OnRequest("p1", postData, readFails)
  \/ \E r \in 1..MaxRequests, readFails \in BOOLEAN : OnResponse(r, readFails)
  \/ \E r \in 1..MaxRequests, settled \in ResponseTexts : OnResponseBody(r, settled)
  \/ \E r \in 1..MaxRequests, errorText \in FailureTexts : OnRequestFailed(r, errorText)

SpecCapture == Init /\ [][NextCapture]_vars

\* Limits: the limits are configured while a page is attached and captures.
NextLimits ==
  \/ \E options \in LimitOptions : ConfigureNetworkLimits(options)
  \/ \E env \in LimitEnvs : ConfigureNetworkLimitsFromEnv(env)
  \/ AttachPage("p1")
  \/ DetachPage("ctxA", "p1")
  \/ OnRequest("p1", TypicalPostData, FALSE)
  \/ \E r \in 1..MaxRequests : OnResponse(r, FALSE)
  \/ \E r \in 1..MaxRequests : OnResponseBody(r, TypicalResponse)

SpecLimits == Init /\ [][NextLimits]_vars

\* Query: one context with two pages, whose store fills over time and is
\* queried, measured and cleared through the tools.
NextQuery ==
  \/ \E page \in {"p1", "p2"} : AttachPage(page)
  \/ \E page \in {"p1", "p2"} : OnRequest(page, TypicalPostData, FALSE)
  \/ \E r \in 1..MaxRequests : OnResponse(r, FALSE)
  \/ \E r \in 1..MaxRequests : OnResponseBody(r, TypicalResponse)
  \/ Tick
  \/ \E filters \in CalledFilters : QueryRequests("ctxA", filters)
  \/ \E pageId \in 0..2 : ClearRequests("ctxA", pageId)
  \/ GetStats("ctxA")

SpecQuery == Init /\ [][NextQuery]_vars

\* Urls of the requests and the urlPattern values of the filter scenario:
\* "a.p", "a.p.j", "Axp" and "*.p", "a.p", "a?p", "?a", "A*"
Urls == {<<"a", ".", "p">>, <<"a", ".", "p", ".", "j">>, <<"A", "x", "p">>}

UrlPatterns ==
  {<<"*", ".", "p">>, <<"a", ".", "p">>, <<"a", "?", "p">>, <<"?", "a">>,
   <<"A", "*">>}

\* The params the filter scenario's caller passes: url patterns, and since as
\* "1970-01-01T00:00:00.002Z", as the string "2", as "yesterday" and as true
FilterCalls ==
  {[urlPattern |-> <<"*", ".", "p">>], [urlPattern |-> <<"a", "?", "p">>],
   [since |-> IsoString(1, 1, 2)], [since |-> DigitString(2)],
   [since |-> GarbageString], [since |-> [type |-> "boolean", v |-> 1]]}

\* Requests to different urls on one tracked page, queried by url pattern
NextFilter ==
  \/ AttachPage("p1")
  \/ \E url \in Urls : OnRequestTo("p1", url, TypicalPostData, FALSE)
  \/ Tick
  \/ \E params \in FilterCalls : GetRequests("ctxA", params)

SpecFilter == Init /\ [][NextFilter]_vars

\* attachPage and detachPage called directly, in any order and repeatedly, for
\* a page of each context, while page p1 issues requests and the store of its
\* context is cleared
NextAttach ==
  \/ \E page \in {"p1", "p3"} : AttachPageCall(page)
  \/ \E context \in Contexts, page \in {"p1", "p3"} : DetachPageCall(context, page)
  \/ \E context \in Contexts : ResetContext(context)
  \/ OnRequest("p1", TypicalPostData, FALSE)
  \/ \E pageId \in 0..1 : ClearRequests("ctxA", pageId)

SpecAttach == Init /\ [][NextAttach]_vars

\* Events: one page whose requests are answered, fail, or both, with bodies
\* that arrive or cannot be read, while time passes.
NextEvents ==
  \/ AttachPage("p1")
  \/ OnRequest("p1", TypicalPostData, FALSE)
  \/ \E r \in 1..MaxRequests : OnResponse(r, FALSE)
  \/ \E r \in 1..MaxRequests, settled \in ResponseTexts : OnResponseBody(r, settled)
  \/ \E r \in 1..MaxRequests, errorText \in FailureTexts : OnRequestFailed(r, errorText)
  \/ Tick

SpecEvents == Init /\ [][NextEvents]_vars

\* Callers: query results handed to a caller that writes into them.
NextCaller ==
  \/ AttachPage("p1")
  \/ OnRequest("p1", TypicalPostData, FALSE)
  \/ \E r \in 1..MaxRequests : OnResponse(r, FALSE)
  \/ \E r \in 1..MaxRequests : OnResponseBody(r, TypicalResponse)
  \/ \E filters \in {EmptyObject, [limit |-> Num(1)]} : QueryRequests("ctxA", filters)
  \/ \E i \in 1..MaxRequests, write \in ResultWrites : MutateResult(i, write)

SpecCaller == Init /\ [][NextCaller]_vars

\* Reads: requests whose accessors throw when the tracker reads them.
NextRead ==
  \/ AttachPage("p1")
  \/ \E unreadable \in {"none"} \cup AbortingReads \cup GuardedReads :
       OnRequestReading("p1", TypicalUrl, TypicalPostData, unreadable)
  \/ \E r \in 1..MaxRequests, readFails \in BOOLEAN : OnResponse(r, readFails)
  \/ \E r \in 1..MaxRequests : OnResponseBody(r, TypicalResponse)
  \/ \E r \in 1..MaxRequests, errorText \in {"net::ERR_FAILED", Thrown} :
       OnRequestFailed(r, errorText)

SpecRead == Init /\ [][NextRead]_vars

\* Disposal: trackers disposed by their holder, once or again, next to the
\* lifecycle's own detach and to monitors registered directly.
NextDispose ==
  \/ \E page \in {"p1", "p2"} : AttachPage(page)
  \/ \E page \in {"p1", "p2"} : DetachPage("ctxA", page)
  \/ \E t \in 1..MaxTrackers : Dispose(t)
  \/ \E pageId \in 1..MaxTrackers : RegisterPageMonitor("ctxA", pageId)
  \/ OnRequest("p1", TypicalPostData, FALSE)

SpecDispose == Init /\ [][NextDispose]_vars

\* Closing: contexts with pages and traffic that are closed or disposed, by
\* an original method that returns or throws.
NextClose ==
  \/ \E page \in {"p1", "p3"} : AttachPage(page)
  \/ \E context \in Contexts, page \in {"p1", "p3"} : DetachPage(context, page)
  \/ \E page \in {"p1", "p3"} : OnRequest(page, TypicalPostData, FALSE)
  \/ \E context \in Contexts, method \in {"closeBrowserContext", "dispose"},
        originalThrows \in BOOLEAN :
       CloseOrDispose(context, method, originalThrows)

SpecClose == Init /\ [][NextClose]_vars

\* Overlap: two pages of one context whose requests are answered and fail
\* while body reads of other requests are still pending.
NextOverlap ==
  \/ \E page \in {"p1", "p2"} : AttachPage(page)
  \/ \E page \in {"p1", "p2"} : OnRequest(page, TypicalPostData, FALSE)
  \/ \E r \in 1..MaxRequests : OnResponse(r, FALSE)
  \/ \E r \in 1..MaxRequests : OnResponseBody(r, TypicalResponse)
  \/ \E r \in 1..MaxRequests : OnRequestFailed(r, "net::ERR_FAILED")

SpecOverlap == Init /\ [][NextOverlap]_vars

\* Lookups: records saved and cleared, then looked up and updated by id,
\* with ids the store holds, held once, or never issued.
LookupIds == 1..(MaxRequests + 1)

NextLookup ==
  \/ AttachPage("p1")
  \/ OnRequest("p1", TypicalPostData, FALSE)
  \/ ClearRequests("ctxA", 0)
  \/ \E requestId \in LookupIds : GetRequest("ctxA", requestId)
  \/ \E requestId \in LookupIds :
       UpdateRequest("ctxA", requestId, failedPatch("net::ERR_FAILED"))
  \/ \E requestId \in LookupIds : GetRequestDetails("ctxA", requestId)

SpecLookup == Init /\ [][NextLookup]_vars

\* Patches: records updated directly with partial patches that carry a body,
\* a size, or both.
SizePatches ==
  {[responseBody |-> Txt(5, 1)],
   [requestBody |-> Txt(7, 1)],
   [responseBodySize |-> 70000],
   [requestBodySize |-> 40000],
   [responseBody |-> Txt(5, 1), responseBodySize |-> 70000]}

NextPatch ==
  \/ AttachPage("p1")
  \/ OnRequest("p1", TypicalPostData, FALSE)
  \/ \E requestId \in LookupIds, patch \in SizePatches :
       UpdateRequest("ctxA", requestId, patch)

SpecPatch == Init /\ [][NextPatch]_vars

\* Reuse: a context that is reset and whose page is attached again while
\* requests of before the reset are still being answered.
NextReuse ==
  \/ AttachPage("p1")
  \/ ResetContext("ctxA")
  \/ OnRequest("p1", TypicalPostData, FALSE)
  \/ \E r \in 1..MaxRequests : OnResponse(r, FALSE)
  \/ \E r \in 1..MaxRequests : OnResponseBody(r, TypicalResponse)
  \/ \E r \in 1..MaxRequests : OnRequestFailed(r, "net::ERR_FAILED")

SpecReuse == Init /\ [][NextReuse]_vars

\* ================================================================ properties
Stores == {contextState[c].storage : c \in Contexts}

Records(storage) == {storage.requests[i] : i \in DOMAIN storage.requests}

AllRecords == UNION {Records(st) : st \in Stores}

\* stored and flag are what the truncation policy makes of body b under limit L
StoredUnderLimit(stored, flag, b, L) ==
  IF b.len > L
  THEN stored = [b EXCEPT !.len = L] /\ flag = TRUE
  ELSE stored = b /\ flag = FALSE

\* C1: a tracker stores a body longer than its limit L as the first L units
\* with the truncated flag set, and any other body unmodified with the flag
\* clear; for the request body in _onRequest and for the response body in
\* _onResponse.
C1_TruncationPolicy ==
  [][/\ \A postData \in PostDataValues :
          (Listeners("p1") # {} /\ OnRequest("p1", postData, FALSE)) =>
            LET t == CHOOSE x \in Listeners("p1") : TRUE
                rs == contextState'["ctxA"].storage.requests
                rec == rs[Len(rs)]
            IN StoredUnderLimit(rec.requestBody, rec.requestBodyTruncated,
                                postData, trackers[t].maxPostDataLength)
     /\ \A r \in 1..MaxRequests, settled \in ResponseTexts :
          (/\ settled.kind = "string"
           /\ handlers[r].suspended
           /\ HasRequest(StorageOf(handlers[r].tracker), handlers[r].requestId)
           /\ OnResponseBody(r, settled)) =>
            LET h == handlers[r]
                rec == getRequest(contextState'[trackers[h.tracker].context].storage,
                                  h.requestId)
            IN StoredUnderLimit(rec.responseBody, rec.responseBodyTruncated,
                                settled.text, trackers[h.tracker].maxBodyLength)
    ]_vars

\* C1 witness: one record holds both bodies cut to the tracker's limits, and
\* another holds a request body of exactly the limit and a response body of
\* exactly the limit, both whole.
C1_Witness ==
  \E a, b \in AllRecords :
    /\ a.requestBodyTruncated /\ a.requestBody.len = 32 * 1024
    /\ a.responseBodyTruncated /\ a.responseBody.len = 64 * 1024
    /\ ~b.requestBodyTruncated /\ b.requestBody.len = 32 * 1024
    /\ ~b.responseBodyTruncated /\ b.responseBody.len = 64 * 1024

\* C2: for every record, requestBodyTruncated is true iff requestBodyBytes is
\* strictly less than requestBodySize, and responseBodyTruncated is true iff
\* responseBodyBytes is strictly less than responseBodySize.
C2_TruncatedIffFewerBytes ==
  \A rec \in AllRecords :
    /\ rec.requestBodyTruncated <=> (rec.requestBodyBytes < rec.requestBodySize)
    /\ rec.responseBodyTruncated <=> (rec.responseBodyBytes < rec.responseBodySize)

\* C3: every tracker attachPage creates truncates at the limits configured at
\* that moment: request bodies at currentLimits.maxRequestBodyBytes, response
\* bodies at currentLimits.maxResponseBodyBytes.
C3_TrackerUsesConfiguredLimits ==
  [][pageCounter' = pageCounter + 1 =>
       /\ trackers'[pageCounter'].maxPostDataLength = currentLimits.maxRequestBodyBytes
       /\ trackers'[pageCounter'].maxBodyLength = currentLimits.maxResponseBodyBytes
    ]_vars

\* A record that is completed (a response wrote its status) or failed
\* (status 0, FAILED)
Terminal(rec) == rec.status # JsNull

\* C4: once a record is completed or failed, no later event changes its
\* status, statusText or error.
C4_NoTransitionBack ==
  [][\A c \in Contexts :
       \A i \in DOMAIN contextState[c].storage.requests :
         LET before == contextState[c].storage.requests[i]
             st == contextState'[c].storage
         IN (Terminal(before) /\ HasRequest(st, before.id)) =>
              LET after == getRequest(st, before.id)
              IN /\ after.status = before.status
                 /\ after.statusText = before.statusText
                 /\ after.error = before.error
    ]_vars

\* The store that holds the record of live request r
StoreOfRequest(cs, req) == cs[PageContext(req.page)].storage

C6_ResetContextFrame ==
  [][\A A \in Contexts :
       (contextState[A].exists /\ ResetContext(A)) =>
         /\ getStats(contextState'[A].storage).total = 0
         /\ contextState'[A].trackers = {}
         /\ \A t \in DOMAIN trackers' :
              trackers'[t].context = A => trackers'[t].disposed
         /\ \A B \in Contexts \ {A} :
              /\ contextState'[B] = contextState[B]
              /\ \A t \in DOMAIN trackers :
                   trackers[t].context = B => trackers'[t] = trackers[t]
    ]_vars

\* C6 witness: context A has been reset after it recorded a request (its store
\* is empty with the counter back at 0, its tracker disposed) while another
\* context still holds a record, a monitor registration and a live tracker.
C6_Witness ==
  \E A \in Contexts, B \in Contexts :
    /\ A # B
    /\ contextState[A].exists
    /\ contextState[A].storage = NewStorage
    /\ contextState[A].trackers = {}
    /\ \E r \in 1..MaxRequests :
         requests[r].requestId # 0 /\ PageContext(requests[r].page) = A
    /\ \E t \in DOMAIN trackers : trackers[t].context = A /\ trackers[t].disposed
    /\ Len(contextState[B].storage.requests) > 0
    /\ contextState[B].storage.activePageMonitors # {}
    /\ \E t \in DOMAIN trackers : trackers[t].context = B /\ ~trackers[t].disposed

\* The live request whose start event created record e (identifiers are not
\* reused while the store is not reset)
RequestOf(e) == CHOOSE r \in 1..MaxRequests : requests[r].requestId = e.id

StoredBytes(t) == IF Truthy(t) THEN byteLength(t) ELSE 0

\* C7: getUsage().requestBytes is the sum over all records of the byte length
\* of the stored request body, and getUsage().responseBytes the sum of the byte
\* length of the stored response body.
C7_UsageSavedBytes ==
  returned.op = "getStats" =>
    LET rs == contextState[returned.context].storage.requests
    IN /\ returned.result.usage.requestBytes =
            SumOver(rs, LAMBDA e : StoredBytes(e.requestBody))
       /\ returned.result.usage.responseBytes =
            SumOver(rs, LAMBDA e : StoredBytes(e.responseBody))

\* C8: getUsage().requestOriginalBytes and responseOriginalBytes are the sums
\* over all records of the body lengths before truncation.
C8_UsageOriginalBytes ==
  returned.op = "getStats" =>
    LET rs == contextState[returned.context].storage.requests
    IN /\ returned.result.usage.requestOriginalBytes =
            SumOver(rs, LAMBDA e : StoredBytes(requests[RequestOf(e)].postData))
       /\ returned.result.usage.responseOriginalBytes =
            SumOver(rs, LAMBDA e :
              IF e.status # JsNull /\ requests[RequestOf(e)].response.kind = "string"
              THEN StoredBytes(requests[RequestOf(e)].response.text) ELSE 0)

\* The adjacent results are in descending order of timestamp
Descending(results) ==
  \A i \in 1..(Len(results) - 1) : results[i].timestamp >= results[i + 1].timestamp

\* C9: queryRequests with no filters returns every record of the store,
\* ordered by timestamp descending, and its total is the number of records.
C9_QueryAllSorted ==
  \A st \in Stores :
    LET q == queryRequests(st, EmptyObject)
    IN /\ q.total = Len(st.requests)
       /\ Len(q.results) = Len(st.requests)
       /\ {q.results[i] : i \in DOMAIN q.results} = Records(st)
       /\ Descending(q.results)
       /\ (returned.op = "queryRequests" /\ returned.filters = EmptyObject
           /\ st = contextState[returned.context].storage) => returned.result = q

\* C9 witness: a query without filters has returned two records of different
\* timestamps, the later one first.
C9_Witness ==
  /\ returned.op = "queryRequests"
  /\ returned.filters = EmptyObject
  /\ returned.result.total = 2
  /\ returned.result.results[1].timestamp > returned.result.results[2].timestamp
  /\ returned.result.results[1].id > returned.result.results[2].id

\* A record passes the pageId, status and since filters
Matches(entry, filters) ==
  /\ ("pageId" \in DOMAIN filters /\ filters.pageId # 0) =>
       entry.pageId = filters.pageId
  /\ "status" \in DOMAIN filters => entry.status = Num(filters.status)
  /\ ("since" \in DOMAIN filters /\ filters.since.type = "number"
      /\ filters.since.v # 0) => entry.timestamp >= filters.since.v

WithoutLimit(filters) == [k \in DOMAIN filters \ {"limit"} |-> filters[k]]

PositiveLimit(filters) ==
  /\ "limit" \in DOMAIN filters
  /\ filters.limit.type = "number"
  /\ filters.limit.v > 0

LimitPolicy(st, filters, q) ==
  LET all == queryRequests(st, WithoutLimit(filters))
  IN /\ q.total = Cardinality({i \in DOMAIN st.requests :
                                 Matches(st.requests[i], filters)})
     /\ q.total = all.total
     /\ all.total = Len(all.results)
     /\ \A i \in DOMAIN all.results : Matches(all.results[i], filters)
     /\ Descending(all.results)
     /\ IF PositiveLimit(filters)
        THEN /\ Len(q.results) = Min(filters.limit.v, q.total)
             /\ q.results = SubSeq(all.results, 1, Len(q.results))
        ELSE q.results = all.results

\* C10: for any filters and a positive numeric limit n, queryRequests returns
\* the first min(n, total) of the sorted filtered list, total is the count of
\* all matching records whatever the limit, and a missing, non-numeric or
\* non-positive limit returns all matching records.
C10_LimitPolicy ==
  /\ \A st \in Stores, filters \in QueryFilters :
       LimitPolicy(st, filters, queryRequests(st, filters))
  /\ returned.op = "queryRequests" =>
       LimitPolicy(contextState[returned.context].storage, returned.filters,
                   returned.result)

\* C10 witness: a query with limit 1 has returned one record out of two that
\* match.
C10_Witness ==
  /\ returned.op = "queryRequests"
  /\ returned.filters = [limit |-> Num(1)]
  /\ returned.result.total = 2
  /\ Len(returned.result.results) = 1

\* pattern matches the whole of text when "*" stands for any substring and
\* every other character for itself, whatever its case
RECURSIVE GlobMatch(_, _)
GlobMatch(pattern, text) ==
  IF pattern = <<>> THEN text = <<>>
  ELSE IF Head(pattern) = "*"
  THEN \/ GlobMatch(Tail(pattern), text)
       \/ text # <<>> /\ GlobMatch(pattern, Tail(text))
  ELSE /\ text # <<>>
       /\ toLowerCase(Head(pattern)) = toLowerCase(Head(text))
       /\ GlobMatch(Tail(pattern), Tail(text))

\* C11: the urlPattern filter of queryRequests treats only "*" as a wildcard
\* and every other character literally, case-insensitively: the result holds
\* exactly the records whose url the pattern matches ("*.png" matches
\* "http://x/a.png" and not "http://x/a.png.js").
C11_WildcardOnly ==
  \A st \in Stores, pattern \in UrlPatterns :
    LET q == queryRequests(st, [urlPattern |-> pattern])
    IN {q.results[i] : i \in DOMAIN q.results} =
         {rec \in Records(st) : GlobMatch(pattern, rec.url)}

\* since values with the time T each stands for; parses = FALSE for a string
\* Date cannot parse.  "1970-01-01T00:00:00.00nZ" is n, "1970-01-02T00:00:00Z"
\* is 86400000, month 13 and "yesterday" are no dates.
SinceValues ==
  {[value |-> Num(t), parses |-> TRUE, T |-> t] : t \in (0 - 1)..(MaxTime + 1)}
  \cup {[value |-> IsoString(1, 1, t), parses |-> TRUE, T |-> t] : t \in 0..(MaxTime + 1)}
  \cup {[value |-> IsoString(1, 2, 0), parses |-> TRUE, T |-> 86400000],
        [value |-> IsoString(13, 1, 2), parses |-> FALSE, T |-> 0],
        [value |-> GarbageString, parses |-> FALSE, T |-> 0]}

SinceBases == {EmptyObject, [pageId |-> 1], [urlPattern |-> <<"a", "*">>]}

SincePolicy(st, base, since, q) ==
  LET all == queryRequests(st, base)
      kept == SelectSeq(all.results, LAMBDA entry : entry.timestamp >= since.T)
  IN IF since.parses
     THEN q.results = kept /\ q.total = Len(kept)
     ELSE q = all

\* C12: the since filter is an inclusive lower bound on timestamp: for a number
\* or a parseable ISO-8601 string of value T the result holds exactly the
\* records matching the other filters with timestamp >= T; for an unparseable
\* string the result is the one without since.
C12_SinceInclusive ==
  /\ \A st \in Stores, base \in SinceBases, since \in SinceValues :
       SincePolicy(st, base, since,
                   queryRequests(st, Assign(base, [since |-> since.value])))
  /\ \A since \in SinceValues :
       (/\ returned.op = "getRequests"
        /\ returned.params = [since |-> since.value]) =>
         SincePolicy(contextState[returned.context].storage,
                     [limit |-> Num(DEFAULT_LIMIT)], since, returned.result)

\* C12 witness: the tool was called with since "1970-01-01T00:00:00.002Z" on a
\* store with a record stamped 1 and a record stamped 2, and returned the
\* record stamped 2 only.
C12_Witness ==
  /\ returned.op = "getRequests"
  /\ returned.params = [since |-> IsoString(1, 1, 2)]
  /\ \E a, b \in Records(contextState[returned.context].storage) :
       a.timestamp = 1 /\ b.timestamp = 2
  /\ returned.result.total = 1
  /\ returned.result.results[1].timestamp = 2

\* C13: clearRequests({pageId: p}) removes exactly the records of page p and
\* returns their number, leaves the records of other pages, the monitor
\* registrations and the id counter unchanged, and queryRequests({pageId: p})
\* then has total 0; clearRequests with no pageId removes all records and
\* returns the prior record count.
C13_ClearRequestsFrame ==
  [][\A c \in Contexts, pageId \in 0..MaxTrackers :
       ClearRequests(c, pageId) =>
         LET before == contextState[c].storage
             after == contextState'[c].storage
             ofPage == {i \in DOMAIN before.requests :
                          before.requests[i].pageId = pageId}
         IN /\ IF pageId = 0
               THEN /\ after.requests = <<>>
                    /\ returned'.result = Len(before.requests)
               ELSE /\ after.requests =
                         SelectSeq(before.requests,
                                   LAMBDA entry : entry.pageId # pageId)
                    /\ returned'.result = Cardinality(ofPage)
                    /\ queryRequests(after, [pageId |-> pageId]).total = 0
            /\ after.activePageMonitors = before.activePageMonitors
            /\ after.requestCounter = before.requestCounter
            /\ \A other \in Contexts \ {c} :
                 contextState'[other] = contextState[other]
            /\ trackers' = trackers
    ]_vars

\* C13 witness: clearRequests for page 1 has removed a record and left a record
\* of page 2, the registrations of both pages and the counter at 2.
C13_Witness ==
  /\ returned.op = "clearRequests"
  /\ returned.pageId = 1
  /\ returned.result = 1
  /\ LET st == contextState[returned.context].storage
     IN /\ Len(st.requests) = 1
        /\ st.requests[1].pageId = 2
        /\ Cardinality(st.activePageMonitors) = 2
        /\ st.requestCounter = 2

\* C14: attachPage for a page that already has a tracker in its context returns
\* that tracker, allocates no page identifier, subscribes no second set of
\* handlers and adds no monitor registration.
C14_AttachIdempotent ==
  [][\A page \in Pages :
       LET existing == TrackerOf(contextState[PageContext(page)], page)
       IN (existing # 0 /\ AttachPageCall(page)) =>
            /\ returned'.result = existing
            /\ pageCounter' = pageCounter
            /\ trackerCounter' = trackerCounter
            /\ trackers' = trackers
            /\ Listeners(page)' = Listeners(page)
            /\ contextState' = contextState
    ]_vars

\* C14 witness: attachPage was called for page p1 after its tracker had
\* recorded a request, and returned that tracker; there is one tracker, one
\* registration and one page identifier.
C14_Witness ==
  /\ returned.op = "attachPage"
  /\ returned.page = "p1"
  /\ returned.result = 1
  /\ \E rec \in Records(contextState["ctxA"].storage) : rec.pageId = 1
  /\ pageCounter = 1
  /\ Len(trackers) = 1
  /\ Listeners("p1") = {1}
  /\ contextState["ctxA"].storage.activePageMonitors = {<<1, 1>>}

\* C15: detachPage(context, page) disposes and removes the tracker of the page
\* if there is one, and changes no state of any context when the context is
\* unknown, the page is unknown or the page was already detached.
C15_DetachNoOp ==
  [][\A context \in Contexts, page \in Pages :
       DetachPageCall(context, page) =>
         LET state == contextState[context]
             t == TrackerOf(state, page)
         IN IF state.exists /\ t # 0
            THEN /\ trackers'[t].disposed
                 /\ \A u \in DOMAIN trackers : u # t => trackers'[u] = trackers[u]
                 /\ TrackerOf(contextState'[context], page) = 0
                 /\ Listeners(page)' = {}
                 /\ contextState'[context].storage.requests = state.storage.requests
                 /\ \A other \in Contexts \ {context} :
                      contextState'[other] = contextState[other]
            ELSE /\ contextState' = contextState
                 /\ trackers' = trackers
                 /\ UNCHANGED <<currentLimits, pageCounter, trackerCounter,
                                requests, handlers, now>>
    ]_vars

\* C15 witness: detachPage was called for a page that was detached before (its
\* tracker is disposed and out of the context's map) and for a context that
\* is unknown, while another tracker is live.
C15_Witness ==
  /\ returned.op = "detachPage"
  /\ returned.page = "p1"
  /\ ~contextState[returned.context].exists
  /\ \E t \in DOMAIN trackers : trackers[t].page = "p1" /\ trackers[t].disposed
  /\ TrackerOf(contextState["ctxA"], "p1") # 0

\* C16: a response event for a request whose start the tracker never saw is
\* ignored by that tracker: the tracker that resumes from the body read
\* modifies no record but those it created itself (the records that carry its
\* page identifier), also when it was attached after the request had started
\* under the page's previous tracker.
C16_OrphanIgnored ==
  [][\A r \in 1..MaxRequests :
       (handlers[r].suspended /\ OnResponseBody(r, TypicalResponse)) =>
         LET tracker == trackers[handlers[r].tracker]
             before == contextState[tracker.context].storage.requests
             after == contextState'[tracker.context].storage.requests
         IN \A i \in DOMAIN before :
              before[i].pageId # tracker.pageId => after[i] = before[i]
    ]_vars

\* The options configureNetworkLimitsFromEnv builds from the environment
EnvOptions(env) ==
  [k \in {o \in {"maxRequestBodyKB", "maxResponseBodyKB"} :
            (IF o = "maxRequestBodyKB"
             THEN "PLAYWRIGHT_MCP_NETWORK_MAX_REQUEST_KB"
             ELSE "PLAYWRIGHT_MCP_NETWORK_MAX_RESPONSE_KB") \in DOMAIN env} |->
     IF k = "maxRequestBodyKB"
     THEN env.PLAYWRIGHT_MCP_NETWORK_MAX_REQUEST_KB
     ELSE env.PLAYWRIGHT_MCP_NETWORK_MAX_RESPONSE_KB]

\* A finite positive number (or a string that spells one)
ValidOverride(value) ==
  value.type \in {"number", "string"} /\ ~value.nan /\ value.tenths > 0

\* round(k) for k given in tenths: the integer n with n - 0.5 <= k < n + 0.5
Rounded(tenths) ==
  CHOOSE n \in 0..(tenths + 1) : 10 * n - 5 <= tenths /\ tenths < 10 * n + 5

\* The limit after a call with options, given the limit before
LimitAfter(before, options, name) ==
  IF name \in DOMAIN options /\ ValidOverride(options[name])
  THEN Rounded(options[name].tenths) * 1024
  ELSE before

OverridePolicy(options) ==
  /\ currentLimits'.maxRequestBodyBytes =
       LimitAfter(currentLimits.maxRequestBodyBytes, options, "maxRequestBodyKB")
  /\ currentLimits'.maxResponseBodyBytes =
       LimitAfter(currentLimits.maxResponseBodyBytes, options, "maxResponseBodyKB")

\* C17: configureNetworkLimits ignores every override that is not a finite
\* positive number and leaves the previous value of that limit and the other
\* limit as they were; a valid override of k kilobytes sets the limit to
\* round(k) * 1024 bytes; without a call the limits are 32*1024 and 64*1024.
C17_OverridePolicy ==
  /\ currentLimits = [maxRequestBodyBytes |-> 32 * 1024,
                      maxResponseBodyBytes |-> 64 * 1024]
  /\ [][/\ \A options \in LimitOptions :
            ConfigureNetworkLimits(options) => OverridePolicy(options)
        /\ \A env \in LimitEnvs :
            ConfigureNetworkLimitsFromEnv(env) => OverridePolicy(EnvOptions(env))
        /\ currentLimits' # currentLimits =>
             \/ \E options \in LimitOptions : ConfigureNetworkLimits(options)
             \/ \E env \in LimitEnvs : ConfigureNetworkLimitsFromEnv(env)
       ]_vars

\* C17 witness: the request limit was set by an override of 1 KB and the
\* response limit by an override of 1.5 KB, rounded to 2 KB.
C17_Witness ==
  /\ currentLimits.maxRequestBodyBytes = 1024
  /\ currentLimits.maxResponseBodyBytes = 2 * 1024

\* C18: after any sequence of configureNetworkLimits and
\* configureNetworkLimitsFromEnv calls both process-wide limits are strictly
\* positive integers.
C18_LimitsPositive ==
  /\ currentLimits.maxRequestBodyBytes \in Nat \ {0}
  /\ currentLimits.maxResponseBodyBytes \in Nat \ {0}

\* C19: a configureNetworkLimits call made after a tracker was created does
\* not change the limits the tracker applies: no step changes the limits of an
\* existing tracker, and a later request or response body is cut at them.
C19_LimitsSnapshotted ==
  [][/\ \A t \in DOMAIN trackers :
          /\ trackers'[t].maxPostDataLength = trackers[t].maxPostDataLength
          /\ trackers'[t].maxBodyLength = trackers[t].maxBodyLength
     /\ (Listeners("p1") # {} /\ OnRequest("p1", TypicalPostData, FALSE)) =>
          LET t == CHOOSE x \in Listeners("p1") : TRUE
              rs == contextState'["ctxA"].storage.requests
              rec == rs[Len(rs)]
          IN StoredUnderLimit(rec.requestBody, rec.requestBodyTruncated,
                              TypicalPostData, trackers[t].maxPostDataLength)
     /\ \A r \in 1..MaxRequests :
          (/\ handlers[r].suspended
           /\ HasRequest(StorageOf(handlers[r].tracker), handlers[r].requestId)
           /\ OnResponseBody(r, TypicalResponse)) =>
            LET h == handlers[r]
                rec == getRequest(contextState'[trackers[h.tracker].context].storage,
                                  h.requestId)
            IN StoredUnderLimit(rec.responseBody, rec.responseBodyTruncated,
                                TypicalResponse.text, trackers[h.tracker].maxBodyLength)
    ]_vars

\* C19 witness: the limits are configured to 1 KB each, the only tracker holds
\* the limits 32 KiB and 64 KiB and has stored a request body cut at 32 KiB and
\* a response body cut at 64 KiB.
C19_Witness ==
  /\ currentLimits = [maxRequestBodyBytes |-> 1024, maxResponseBodyBytes |-> 1024]
  /\ Len(trackers) = 1
  /\ trackers[1].maxPostDataLength = 32 * 1024
  /\ trackers[1].maxBodyLength = 64 * 1024
  /\ \E rec \in Records(contextState["ctxA"].storage) :
       /\ rec.requestBody.len = 32 * 1024
       /\ rec.responseBody.len = 64 * 1024

\* The identifiers of the records of a store
RecordIds(st) == {st.requests[i].id : i \in DOMAIN st.requests}

\* C20: saveRequest numbers the records of a store from a per-store counter
\* that starts at 1: no two records of the store share an identifier, a new
\* record takes the counter's next value, clearRequests does not reset the
\* counter (identifiers are not reused after it) and only reset() restarts the
\* numbering.
C20_IdsFromCounter ==
  /\ [](\A st \in Stores :
          /\ Cardinality(RecordIds(st)) = Len(st.requests)
          /\ RecordIds(st) \subseteq 1..st.requestCounter)
  /\ [][\A c \in Contexts :
          LET before == contextState[c].storage
              after == contextState'[c].storage
          IN /\ \A id \in RecordIds(after) \ RecordIds(before) :
                  /\ id = before.requestCounter + 1
                  /\ after.requestCounter = id
             /\ after.requestCounter < before.requestCounter =>
                  ResetContext(c) /\ after.requestCounter = 0
             /\ \A pageId \in 0..MaxTrackers :
                  ClearRequests(c, pageId) =>
                    after.requestCounter = before.requestCounter
       ]_vars

\* C20 witness: after two requests with a clearRequests between them the store
\* holds the second record alone, numbered 2.
C20_Witness ==
  \E st \in Stores :
    /\ st.requestCounter = 2
    /\ Len(st.requests) = 1
    /\ st.requests[1].id = 2

\* C21: a record is stored under its own id, the one saveRequest drew from
\* the counter, stamped with the time of its creation; no response, failure
\* or other update of the capture pipeline changes the id or the timestamp
\* of a stored record.
C21_IdAndTimestampFixed ==
  [][\A c \in Contexts :
       LET before == contextState[c].storage
           after == contextState'[c].storage
       IN /\ \A i \in DOMAIN before.requests :
               /\ i \in DOMAIN after.requests
               /\ after.requests[i].id = before.requests[i].id
               /\ after.requests[i].timestamp = before.requests[i].timestamp
               /\ getRequest(after, before.requests[i].id) = after.requests[i]
          /\ \A i \in DOMAIN after.requests \ DOMAIN before.requests :
               /\ after.requests[i].id = before.requestCounter + 1
               /\ after.requests[i].timestamp = now
               /\ getRequest(after, before.requestCounter + 1) = after.requests[i]
    ]_vars

\* A record completed by a response and marked by a failure, later than its
\* creation
C21_Witness ==
  \E rec \in AllRecords :
    /\ rec.status = Num(200)
    /\ rec.error # NullStr
    /\ rec.timestamp < now

\* C22: a caller cannot change stored state through a query result: when it
\* writes into an entry of the result (a top-level field, or an entry of its
\* requestHeaders, responseHeaders or timing), every stored record as
\* getRequest returns it, and the answer of a later query, stay as they were.
C22_ResultIsolated ==
  [][(\E i \in 1..MaxRequests, write \in ResultWrites : MutateResult(i, write)) =>
       \A c \in Contexts :
         LET before == contextState[c].storage
             after == contextState'[c].storage
         IN /\ Ids(after) = Ids(before)
            /\ \A id \in Ids(before) : getRequest(after, id) = getRequest(before, id)
            /\ queryRequests(after, EmptyObject) = queryRequests(before, EmptyObject)
    ]_vars

\* C23: when a tracker handles the start of a request one of whose fields
\* cannot be read (url, method, resource type, navigation flag, frame,
\* headers, body), a record of the request is still saved: the unreadable
\* field is null or empty and the other fields are captured.
C23_UnreadableFieldDegrades ==
  [][\A r \in 1..MaxRequests :
       (~requests[r].started /\ requests'[r].started
          /\ Listeners(requests'[r].page) # {}) =>
         LET request == requests'[r]
             storage == StoreOfRequest(contextState', request)
             rec == getRequest(storage, request.requestId)
         IN /\ HasRequest(storage, request.requestId)
            /\ ~HasRequest(StoreOfRequest(contextState, request), request.requestId)
            /\ request.unreadable # "url" => rec.url = request.url
            /\ rec.frameUrl = IF request.unreadable = "frame" THEN NullStr
                              ELSE "https://a.p/"
            /\ rec.requestBody = IF request.unreadable = "postData" THEN NullTxt
                                 ELSE slice0(request.postData, 32 * 1024)
            /\ rec.requestHeaders.isObj = (request.unreadable # "headers")
    ]_vars

\* C24: each handler of a tracker is a failure boundary: whatever is thrown
\* while a request, response or failure event of a request is handled, nothing
\* reaches the emitter of the event, and every record other than the one of
\* that request stays as it was.
C24_FailureBoundary ==
  [][\A r \in 1..MaxRequests :
       (requests'[r] # requests[r] \/ handlers'[r] # handlers[r]) =>
         /\ returned' = Nothing
         /\ \A c \in Contexts :
              LET before == contextState[c].storage
                  after == contextState'[c].storage
              IN \A id \in Ids(before) :
                   (c = PageContext(requests'[r].page) => id # requests'[r].requestId) =>
                     /\ HasRequest(after, id)
                     /\ getRequest(after, id) = getRequest(before, id)
    ]_vars

\* A request whose start could not be read, one whose response could not be
\* read and one whose failure could not be read, next to a stored record
C24_Witness ==
  /\ AllRecords # {}
  /\ \E t \in DOMAIN trackers : ~trackers[t].disposed
  /\ \E r \in 1..MaxRequests :
       \/ requests[r].started /\ requests[r].unreadable \in AbortingReads
       \/ /\ requests[r].requestId # 0
          /\ \/ requests[r].responded /\ ~handlers[r].suspended
                  /\ requests[r].response = NoResponse
             \/ requests[r].failed
                  /\ getRequest(StoreOfRequest(contextState, requests[r]),
                                requests[r].requestId).error = NullStr

\* C25: when the read of the response body fails, the response handler still
\* completes the record: status, statusText, headers and timing of the
\* response are stored, responseBody is null, responseBodyTruncated is false
\* and responseBodyError is the text of the failure; nothing is thrown.
C25_BodyReadFailureRecorded ==
  [][\A r \in 1..MaxRequests :
       (handlers[r].suspended /\ ~handlers'[r].suspended
          /\ requests'[r].response.kind = "throws") =>
         LET h == handlers[r]
             storage == contextState'[trackers[h.tracker].context].storage
             rec == getRequest(storage, h.requestId)
         IN /\ HasRequest(storage, h.requestId)
            /\ rec.status = Num(h.status)
            /\ rec.statusText = h.statusText
            /\ rec.responseHeaders = Obj({<<"content-type", "text/html">>})
            /\ rec.timing.isObj
            /\ <<"duration", 4>> \in rec.timing.entries
            /\ rec.responseBody = NullTxt
            /\ rec.responseBodyTruncated = FALSE
            /\ rec.responseBodyError = requests'[r].response.message
            /\ rec.responseBodyError # NullStr
            /\ returned' = Nothing
    ]_vars

\* A record completed by a response whose body could not be read
C25_Witness ==
  \E rec \in AllRecords :
    /\ rec.status = Num(200)
    /\ rec.responseBodyError = "body unavailable"
    /\ rec.responseBody = NullTxt

\* C26: disposing a tracker is idempotent: the first dispose() takes its
\* three handlers off the page and removes its pageId from the monitor
\* registry of its store; a further dispose() changes nothing.
C26_DisposeIdempotent ==
  [][\A t \in 1..MaxTrackers :
       Dispose(t) =>
         IF trackers[t].disposed
         THEN trackers' = trackers /\ contextState' = contextState
         ELSE /\ trackers'[t].disposed
              /\ \A u \in DOMAIN trackers \ {t} : trackers'[u] = trackers[u]
              /\ \A m \in contextState'[trackers[t].context].storage.activePageMonitors :
                   m[1] # trackers[t].pageId
              /\ contextState'[trackers[t].context].storage.requests = StorageOf(t).requests
    ]_vars

\* A disposed tracker whose pageId has a monitor registered again, so that a
\* second unregister would show
C26_Witness ==
  \E t \in DOMAIN trackers :
    /\ trackers[t].disposed
    /\ <<trackers[t].pageId, OtherMonitor>> \in StorageOf(t).activePageMonitors
    /\ StorageOf(t).requests # <<>>

C28_ClosedContextTornDown ==
  returned.op \in {"closeBrowserContext", "dispose"} =>
    LET state == contextState[returned.context]
    IN /\ \A t \in DOMAIN trackers :
            trackers[t].context = returned.context => trackers[t].disposed
       /\ state.trackers = {}
       /\ state.storage.requests = <<>>
       /\ state.storage.activePageMonitors = {}

\* A context closed by an original method that threw, after it had a tracker
\* and recorded a request, while the other context keeps its record
C28_Witness ==
  /\ returned.op \in {"closeBrowserContext", "dispose"}
  /\ returned.threw
  /\ \E t \in DOMAIN trackers : trackers[t].context = returned.context
  /\ \E r \in 1..MaxRequests :
       PageContext(requests[r].page) = returned.context /\ requests[r].requestId # 0
  /\ \E c \in Contexts \ {returned.context} : contextState[c].storage.requests # <<>>

\* C29: a body read that is slow or never settles does not block the capture
\* of other traffic. While the response handler of one request is suspended,
\* the response and failure events of every other request can be handled and
\* another suspended handler can resume, whichever suspended first; and the
\* events of other requests handled meanwhile save and update their records.
C29_SlowReadDoesNotBlock ==
  /\ [](\A q \in 1..MaxRequests :
          handlers[q].suspended =>
            \A r \in 1..MaxRequests \ {q} :
              /\ (requests[r].started /\ ~requests[r].responded /\ ~requests[r].failed)
                   => ENABLED OnResponse(r, FALSE)
              /\ (requests[r].started /\ ~requests[r].failed)
                   => ENABLED OnRequestFailed(r, "net::ERR_FAILED")
              /\ handlers[r].suspended
                   => /\ ENABLED OnResponseBody(r, TypicalResponse)
                      /\ ENABLED OnResponseBody(q, TypicalResponse))
  /\ [][\A q \in 1..MaxRequests :
          (handlers[q].suspended /\ handlers'[q].suspended) =>
            \A r \in 1..MaxRequests \ {q} :
              LET storage == StoreOfRequest(contextState', requests'[r])
                  rec == getRequest(storage, requests'[r].requestId)
              IN /\ (~requests[r].started /\ requests'[r].started
                       /\ Listeners(requests'[r].page) # {})
                      => HasRequest(storage, requests'[r].requestId)
                 /\ (~requests[r].responded /\ requests'[r].responded
                       /\ requests[r].requestId # 0
                       /\ Listeners(requests'[r].page) # {})
                      => handlers'[r].suspended
                 /\ (handlers[r].suspended /\ ~handlers'[r].suspended)
                      => rec.status = Num(200)
                 /\ (~requests[r].failed /\ requests'[r].failed
                       /\ requests[r].requestId # 0
                       /\ Listeners(requests'[r].page) # {})
                      => rec.error = "net::ERR_FAILED"
     ]_vars

\* The handler of an earlier request still waits for its body while a
\* request that started after it has its record completed
C29_Witness ==
  \E q, r \in 1..MaxRequests :
    /\ handlers[q].suspended
    /\ requests[r].requestId > requests[q].requestId
    /\ getRequest(StoreOfRequest(contextState, requests[r]),
                  requests[r].requestId).status = Num(200)
    /\ getRequest(StoreOfRequest(contextState, requests[q]),
                  requests[q].requestId).status = JsNull

\* C30: getRequest and updateRequest with an identifier the store does not
\* hold return null and leave the store as it was: its records, its id
\* counter and its monitor registrations; updateRequest creates no record.
\* The details tool reports the missing request as an error.
C30_MissingIdIsNull ==
  [][\A c \in Contexts, requestId \in LookupIds :
       LET before == ensureContextState(contextState, c)[c].storage
           after == contextState'[c].storage
           call == \/ GetRequest(c, requestId)
                   \/ UpdateRequest(c, requestId, failedPatch("net::ERR_FAILED"))
                   \/ GetRequestDetails(c, requestId)
       IN (call /\ ~HasRequest(before, requestId)) =>
            /\ returned'.result = JsNull
            /\ returned'.op = "getRequestDetails" => returned'.error
            /\ after.requests = before.requests
            /\ after.requestCounter = before.requestCounter
            /\ after.activePageMonitors = before.activePageMonitors
    ]_vars

\* updateRequest has returned null for an id the store issued and no longer
\* holds, while the store holds another record
C30_Witness ==
  /\ returned.op = "updateRequest"
  /\ returned.result = JsNull
  /\ LET storage == contextState[returned.context].storage
     IN /\ returned.requestId <= storage.requestCounter
        /\ storage.requests # <<>>
        /\ storage.activePageMonitors # {}

\* C31: updateRequest derives a byte-count field (requestBodyBytes,
\* responseBodyBytes, requestBodySize, responseBodySize) from the patch only
\* when the field is not yet a number on the record: a field that is a number
\* is left as it is by every further partial update.
C31_NumericCountsKept ==
  [][\A requestId \in LookupIds, patch \in SizePatches :
       LET before == ensureContextState(contextState, "ctxA")["ctxA"].storage
           after == contextState'["ctxA"].storage
       IN (UpdateRequest("ctxA", requestId, patch) /\ HasRequest(before, requestId)) =>
            \A f \in {"requestBodyBytes", "responseBodyBytes",
                      "requestBodySize", "responseBodySize"} :
              IsNumber(getRequest(before, requestId), f) =>
                getRequest(after, requestId)[f] = getRequest(before, requestId)[f]
    ]_vars

\* The request whose start event created the record that context c holds
\* under id: requests start in the order of their numbers, and a record with
\* a reused id is that of the latest request that was given the id
CreatorOf(c, id) ==
  LET given == {q \in 1..MaxRequests :
                  /\ requests[q].requestId = id
                  /\ PageContext(requests[q].page) = c}
  IN CHOOSE q \in given : \A p \in given : p <= q

\* C32: a response or failure event of a request changes no record but the
\* one the start event of that request created, also when the response
\* handler was suspended in its body read across a resetContext that
\* restarted the numbering.
C32_OnlyOwnRecord ==
  [][\A r \in 1..MaxRequests :
       (\/ handlers[r].suspended /\ ~handlers'[r].suspended
        \/ ~requests[r].failed /\ requests'[r].failed) =>
         \A c \in Contexts :
           LET before == contextState[c].storage
               after == contextState'[c].storage
           IN \A id \in Ids(before) :
                (HasRequest(after, id) /\ getRequest(after, id) # getRequest(before, id))
                  => CreatorOf(c, id) = r
    ]_vars

\* C33: once dispose() of a tracker has returned, by detachPage or by
\* resetContext, the tracker changes the store no more, not even from a
\* response handler that was suspended in its body read when dispose() ran.
C33_DisposedTrackerSilent ==
  [][\A r \in 1..MaxRequests :
       (/\ handlers[r].suspended
        /\ ~handlers'[r].suspended
        /\ trackers[handlers[r].tracker].disposed) =>
         contextState' = contextState
    ]_vars

\* C34: for every context, the number of active monitors that getStats() of
\* its store reports is the number of trackers in the context's tracker map,
\* after any sequence of attachPage, detachPage, resetContext and
\* clearRequests.
C34_MonitorsMatchTrackers ==
  \A c \in Contexts :
    getStats(contextState[c].storage).activeMonitors
      = Cardinality(contextState[c].trackers)

\* A context that holds one tracker and reports one monitor after another
\* of its trackers was disposed, with records cleared from its store
C34_Witness ==
  \E c \in Contexts :
    /\ Cardinality(contextState[c].trackers) = 1
    /\ getStats(contextState[c].storage).activeMonitors = 1
    /\ \E t \in DOMAIN trackers : trackers[t].context = c /\ trackers[t].disposed
    /\ contextState[c].storage.requestCounter > Len(contextState[c].storage.requests)

\* C35: page identifiers come from one counter of the process that only
\* grows: no two trackers ever created, in the same or in different
\* contexts, before or after detachPage or resetContext, have the same
\* pageId, so every record names the one tracker that observed it.
C35_PageIdsUnique ==
  /\ [](/\ \A t, u \in DOMAIN trackers :
             trackers[t].pageId = trackers[u].pageId => t = u
        /\ \A t \in DOMAIN trackers : trackers[t].pageId \in 1..pageCounter
        /\ \A rec \in AllRecords :
             Cardinality({t \in DOMAIN trackers : trackers[t].pageId = rec.pageId}) = 1)
  /\ [][/\ pageCounter' >= pageCounter
        /\ \A t \in DOMAIN trackers' \ DOMAIN trackers :
             trackers'[t].pageId = pageCounter + 1 /\ pageCounter' = pageCounter + 1
       ]_vars

\* A page attached a second time after its first tracker was disposed, with
\* a record of the first tracker still in the store, and a context reset
C35_Witness ==
  \E t, u \in DOMAIN trackers :
    /\ trackers[t].page = trackers[u].page
    /\ trackers[t].disposed
    /\ ~trackers[u].disposed
    /\ trackers[t].pageId < trackers[u].pageId
    /\ \E rec \in AllRecords : rec.pageId = trackers[t].pageId

\* C36: contexts are isolated. A context keeps the one store it was given
\* (getting the storage of a context that has a state creates nothing), and
\* a traffic event on a page attached under context A changes only the store
\* of A; every record the event creates or updates carries the pageId of the
\* tracker that observed the event.
C36_ContextsIsolated ==
  /\ [](\A c \in Contexts :
          contextState[c].exists => ensureContextState(contextState, c) = contextState)
  /\ [][\A r \in 1..MaxRequests :
          LET A == PageContext(requests'[r].page)
              before == contextState[A].storage
              after == contextState'[A].storage
              started == ~requests[r].started /\ requests'[r].started
              resumed == handlers[r].suspended /\ ~handlers'[r].suspended
              observer == IF resumed THEN trackers[handlers[r].tracker].pageId
                          ELSE trackers[CHOOSE t \in Listeners(requests'[r].page) : TRUE].pageId
          IN ((started /\ Listeners(requests'[r].page) # {}) \/ resumed) =>
               /\ \A c \in Contexts \ {A} : contextState'[c] = contextState[c]
               /\ \A id \in Ids(after) :
                    (~HasRequest(before, id) \/ getRequest(after, id) # getRequest(before, id))
                      => getRequest(after, id).pageId = observer
       ]_vars

====
